---- MODULE Spec2Model ----
(***************************************************************************)
(* Model of the auth-client session manager: the token store (token.js),   *)
(* the custody configuration (config.js) and the refresh coordinator       *)
(* (core.js).  JavaScript is single threaded: every action below is one    *)
(* run-to-completion piece of code (a synchronous call, or the stretch of  *)
(* an async function between two awaits).                                   *)
(***************************************************************************)
EXTENDS Integers, Sequences, FiniteSets, TLC

\* ------------------------------------------------------------------ bounds
MaxListeners == 2
MaxCallers == 2
MaxPromises == 2
MaxNow == 10
MaxWindow == 3
MaxTimers == 2
MaxTasks == 2
MaxCallbacks == 2

\* ------------------------------------------------------------------ values
\* JavaScript null / undefined / '' are kept apart so that `token || null`
\* is a real conversion.
Null == "null"
Undefined == "undefined"
Empty == ""
Tokens == {"t1", "t2"}
RefreshTokens == {"r1", "r2"}
ListenerIds == 1..MaxListeners
Callers == 1..MaxCallers
PromiseIds == 1..MaxPromises
NoPromise == 0

Falsy(x) == x \in {Null, Undefined, Empty}

VARIABLES
  accessToken,          \* token.js: let accessToken (in memory)
  authToken,            \* localStorage['authToken']
  refreshStore,         \* localStorage['auth_refresh_token']
  listeners,            \* token.js: listeners (a Set, iterated in insertion order)
  persistRefreshToken,  \* token.js: _persistRefreshToken
  config,               \* config.js: config.persistRefreshToken
  protocol,             \* window.location.protocol
  refreshInProgress,    \* core.js: refreshInProgress
  refreshPromise,       \* core.js: refreshPromise (a promise id, NoPromise for null)
  promises,             \* the promises created by refreshToken()
  awaiting,             \* per caller: the promise it awaits, NoPromise if none
  flightFetches,        \* network refresh requests issued since the last settlement
  now,                  \* Date.now(), in half seconds
  callbackProcessed,    \* core.js: callbackProcessed (the idempotency latch)
  url,                  \* the query parameters of window.location
  sessionKeys,          \* sessionStorage holds originalApp and returnUrl
  logoutInFlight,       \* routerLogout awaits its POST /logout
  proactiveRefreshTimer,    \* core.js: proactiveRefreshTimer (a timer id, 0 for null)
  pendingTimers,            \* the setTimeout timers not yet fired or cleared
  sessionValidationTimer,   \* core.js: sessionValidationTimer is set (setInterval live)
  visibilityHandler,        \* core.js: visibilityHandler is set (listener attached)
  sessionInvalidCallbacks,  \* core.js: sessionInvalidCallbacks (insertion order)
  tasks,                    \* async callbacks suspended at an await
  validationIntervals,      \* the setInterval timers not yet cleared (how many)
  visibilityListeners,      \* the visibilitychange listeners attached (how many)
  hiddenAt,                 \* startSessionMonitor: let hiddenAt (<<>> for null)
  visibilityState,          \* document.visibilityState
  hiddenSince,              \* when the tab was hidden (<<>> while visible)
  ev                    \* what the step just taken did (observation record)

vars == <<accessToken, authToken, refreshStore, listeners, persistRefreshToken,
          config, protocol, refreshInProgress, refreshPromise, promises,
          awaiting, flightFetches, now, callbackProcessed, url, sessionKeys,
          logoutInFlight, proactiveRefreshTimer, pendingTimers,
          sessionValidationTimer, visibilityHandler, sessionInvalidCallbacks,
          tasks, validationIntervals, visibilityListeners, hiddenAt,
          visibilityState, hiddenSince, ev>>

storeVars == <<accessToken, authToken, refreshStore, listeners>>
cfgVars == <<persistRefreshToken, config, protocol>>
refreshVars == <<refreshInProgress, refreshPromise, promises, awaiting, flightFetches>>
callbackVars == <<callbackProcessed, url, sessionKeys, logoutInFlight>>
monitorVars == <<proactiveRefreshTimer, pendingTimers, sessionValidationTimer,
                 visibilityHandler, sessionInvalidCallbacks, tasks,
                 validationIntervals, visibilityListeners, hiddenAt,
                 visibilityState, hiddenSince>>
\* What the token store, the configuration and the refresh coordinator never
\* write: the clock, the callback processor's state, the scheduler's and the
\* monitor's state.
extVars == <<now, callbackVars, monitorVars>>
TimerIds == 1..MaxTimers
CallbackIds == 1..MaxCallbacks
NoTimer == 0

\* The query parameters handleCallback reads or deletes; Null for a parameter
\* the URL does not carry (URLSearchParams.get returns null).  The URLs tried
\* are the ones the auth service redirects to: a state parameter with every
\* answer, a refresh token only next to an access token, a description only
\* next to an error.
NoUrl == [access_token |-> Null, refresh_token |-> Null, error |-> Null,
          state |-> Null, error_description |-> Null]
Urls == {u \in [access_token : Tokens \cup {Null}, refresh_token : {"r1", Null},
                error : {"access_denied", Null}, state : {"s", Null},
                error_description : {"denied", Null}] :
           /\ (u.error_description # Null => u.error # Null)
           /\ (u.refresh_token # Null => u.access_token # Null)
           /\ (u.state # Null <=> (u.access_token # Null \/ u.error # Null))}

\* ------------------------------------------------------- observation record
NoEv ==
  [op |-> "init", arg |-> Null, prevMem |-> Null, prevHeld |-> Null,
   prevLs |-> Null, prevRs |-> Null, calls |-> <<>>, registered |-> <<>>,
   throwers |-> {}, propagated |-> FALSE, ret |-> Null, p |-> NoPromise,
   waiters |-> {}, path |-> "", err |-> "", at |-> Null, rt |-> Null,
   useLS |-> FALSE, joined |-> FALSE, fetched |-> FALSE, stored |-> Null,
   within |-> <<>>, timeLeft |-> 0, soon |-> FALSE,
   latch |-> FALSE, url |-> NoUrl,
   kind |-> "", outcome |-> "", notified |-> <<>>, callbacks |-> <<>>,
   validations |-> 0, refreshes |-> 0, prevTimer |-> NoTimer,
   prevPending |-> {}, prevMonitor |-> FALSE,
   hidden |-> 0, enabled |-> TRUE, delay |-> 0, prevCallbacks |-> <<>>,
   prevIntervals |-> 0, prevSubscriptions |-> 0]

\* ------------------------------------------------------------- token store
\* writeAccessToken(token): removeItem when falsy, setItem otherwise.
writeAccessToken(token) == IF Falsy(token) THEN Null ELSE token

\* readAccessToken(): localStorage.getItem('authToken')
readAccessToken(ls) == ls

\* getToken() that returns the in-memory token only, without reading the
\* persistent entry.
getTokenValue_memoryOnly(mem, ls) == mem

\* The value getToken() returns for an in-memory token mem and a persistent
\* entry ls: the in-memory token when truthy, else the persistent entry.
getTokenValue(mem, ls) == IF ~Falsy(mem) THEN mem ELSE readAccessToken(ls)

\* notifyListeners without the try/catch around the listener call: the first
\* throwing listener ends the forEach and the exception reaches the caller.
notifyListeners_noCatch(lst, new, prev, throwers, seen) ==
  LET bad == {i \in 1..Len(lst) : lst[i] \in throwers}
      last == IF bad = {} THEN Len(lst)
              ELSE CHOOSE i \in bad : \A j \in bad : i <= j
  IN [calls |-> [i \in 1..last |->
                   [listener |-> lst[i], new |-> new, prev |-> prev,
                    seen |-> seen, threw |-> lst[i] \in throwers]],
      propagated |-> bad # {}]

\* listeners.forEach with the per-listener try/catch: every listener of lst is
\* called once, in insertion order; `seen` is what getToken() returns inside
\* the listener; a throwing listener is caught, nothing propagates.
notifyListeners(lst, new, prev, throwers, seen) ==
  [calls |-> [i \in 1..Len(lst) |->
                [listener |-> lst[i], new |-> new, prev |-> prev,
                 seen |-> seen, threw |-> lst[i] \in throwers]],
   propagated |-> FALSE]

NoCalls == [calls |-> <<>>, propagated |-> FALSE]

\* setToken without writeAccessToken(accessToken).
setToken_memoryOnly(mem, ls, lst, token, throwers) ==
  LET newMem == IF Falsy(token) THEN Null ELSE token
      n == IF mem # newMem
             THEN notifyListeners(lst, newMem, mem, throwers, getTokenValue(newMem, ls))
             ELSE NoCalls
  IN [mem |-> newMem, ls |-> ls, calls |-> n.calls, propagated |-> n.propagated]

\* setToken without the previousToken !== accessToken test.
setToken_alwaysNotifies(mem, ls, lst, token, throwers) ==
  LET newMem == IF Falsy(token) THEN Null ELSE token
      newLs == writeAccessToken(newMem)
      n == notifyListeners(lst, newMem, mem, throwers, getTokenValue(newMem, newLs))
  IN [mem |-> newMem, ls |-> newLs, calls |-> n.calls, propagated |-> n.propagated]

\* setToken that notifies before it assigns and persists the new token.
setToken_notifiesFirst(mem, ls, lst, token, throwers) ==
  LET newMem == IF Falsy(token) THEN Null ELSE token
      newLs == writeAccessToken(newMem)
      n == IF mem # newMem
             THEN notifyListeners(lst, newMem, mem, throwers, getTokenValue(mem, ls))
             ELSE NoCalls
  IN [mem |-> newMem, ls |-> newLs, calls |-> n.calls, propagated |-> n.propagated]

\* setToken(token) on a store (mem, ls) with listeners lst.
setToken(mem, ls, lst, token, throwers) ==
  LET previousToken == mem
      newMem == IF Falsy(token) THEN Null ELSE token
      newLs == writeAccessToken(newMem)
      n == IF previousToken # newMem
             THEN notifyListeners(lst, newMem, previousToken, throwers,
                                  getTokenValue(newMem, newLs))
             ELSE NoCalls
  IN [mem |-> newMem, ls |-> newLs, calls |-> n.calls, propagated |-> n.propagated]

\* clearRefreshToken(): localStorage.removeItem('auth_refresh_token')
clearRefreshToken(rs) == Null

\* clearToken that forgets clearRefreshToken() when a token is held.
clearToken_keepsRefresh(mem, ls, rs, lst, throwers) ==
  IF Falsy(mem)
    THEN [mem |-> mem, ls |-> writeAccessToken(Null), rs |-> Null,
          calls |-> <<>>, propagated |-> FALSE]
    ELSE LET n == notifyListeners(lst, Null, mem, throwers, Null)
         IN [mem |-> Null, ls |-> writeAccessToken(Null), rs |-> rs,
             calls |-> n.calls, propagated |-> n.propagated]

\* clearToken that returns at once when no token is in memory.
clearToken_earlyReturn(mem, ls, rs, lst, throwers) ==
  IF Falsy(mem)
    THEN [mem |-> mem, ls |-> ls, rs |-> rs, calls |-> <<>>, propagated |-> FALSE]
    ELSE LET n == notifyListeners(lst, Null, mem, throwers, Null)
         IN [mem |-> Null, ls |-> writeAccessToken(Null), rs |-> Null,
             calls |-> n.calls, propagated |-> n.propagated]

\* clearToken() on a store (mem, ls, rs) with listeners lst.
clearToken(mem, ls, rs, lst, throwers) ==
  IF Falsy(mem)
    THEN [mem |-> mem, ls |-> writeAccessToken(Null), rs |-> clearRefreshToken(rs),
          calls |-> <<>>, propagated |-> FALSE]
    ELSE LET previousToken == mem
             newLs == writeAccessToken(Null)
             n == notifyListeners(lst, Null, previousToken, throwers,
                                  getTokenValue(Null, newLs))
         IN [mem |-> Null, ls |-> newLs, rs |-> clearRefreshToken(rs),
             calls |-> n.calls, propagated |-> n.propagated]

\* ------------------------------------------------------------ token expiry
\* Tokens whose expiry cannot be read: a string that is not a JWT, a JWT
\* whose payload has no exp claim, a JWT whose exp claim is 0.
OpaqueTokens == {"garbage", "noexp", "exp0"}

\* decode(token): the payload jwtDecode returns (exp in seconds, when the
\* payload has the claim); decoded is FALSE for the null returned when
\* jwtDecode throws.
decode(token) ==
  CASE token = "t1" -> [decoded |-> TRUE, hasExp |-> TRUE, exp |-> 2]
    [] token = "t2" -> [decoded |-> TRUE, hasExp |-> TRUE, exp |-> 4]
    [] token = "noexp" -> [decoded |-> TRUE, hasExp |-> FALSE, exp |-> 0]
    [] token = "exp0" -> [decoded |-> TRUE, hasExp |-> TRUE, exp |-> 0]
    [] OTHER -> [decoded |-> FALSE, hasExp |-> FALSE, exp |-> 0]

\* !decoded?.exp
NoExp(d) == ~d.decoded \/ ~d.hasExp \/ d.exp = 0

\* getTimeUntilExpiry(token) at clock t (half seconds):
\* Math.floor(decoded.exp - Date.now() / 1000)
getTimeUntilExpiry(token, t) ==
  IF Falsy(token) THEN -1
  ELSE IF NoExp(decode(token)) THEN -1
  ELSE IF 2 * decode(token).exp >= t
    THEN (2 * decode(token).exp - t) \div 2
    ELSE -((t - 2 * decode(token).exp + 1) \div 2)

\* willExpireSoon with strict comparisons at both ends of the window.
willExpireSoon_strict(token, withinSeconds, t) ==
  LET within == IF withinSeconds = <<>> THEN 60 ELSE withinSeconds[1]
      timeLeft == getTimeUntilExpiry(token, t)
  IN timeLeft > 0 /\ timeLeft < within

\* willExpireSoon(token, withinSeconds = 60) at clock t; withinSeconds is the
\* argument list after token: <<>> when the argument is left out, <<w>> else.
willExpireSoon(token, withinSeconds, t) ==
  LET within == IF withinSeconds = <<>> THEN 60 ELSE withinSeconds[1]
      timeLeft == getTimeUntilExpiry(token, t)
  IN timeLeft >= 0 /\ timeLeft <= within

\* shouldUseLocalStorage()
shouldUseLocalStorage(flag, proto) == flag \/ proto = "http:"

\* setRefreshToken(token): the new value of localStorage['auth_refresh_token']
setRefreshToken(rs, token, flag, proto) ==
  IF Falsy(token) THEN clearRefreshToken(rs)
  ELSE IF shouldUseLocalStorage(flag, proto) THEN token
  ELSE rs

\* getRefreshToken() that reads the storage entry whatever the custody mode.
getRefreshToken_ignoresMode(rs, flag, proto) == rs

\* getRefreshToken()
getRefreshToken(rs, flag, proto) ==
  IF shouldUseLocalStorage(flag, proto) THEN rs ELSE Null

\* ----------------------------------------------------------------- helpers
InSeq(x, s) == \E i \in 1..Len(s) : s[i] = x
Remove(x, s) == SelectSeq(s, LAMBDA y : y # x)
SeqSet(s) == {s[i] : i \in 1..Len(s)}

\* The listeners that threw during a notification; only a listener that is
\* called can throw.
Thrown(calls) == {calls[i].listener : i \in {j \in 1..Len(calls) : calls[j].threw}}

\* A promise is pending until the async body returns or throws.
Pending(p) == promises[p].phase \in {"fetch", "text", "json"}
Settled(p) == promises[p].phase \in {"resolved", "rejected"}
FreePromise == [phase |-> "free", status |-> "", value |-> Null]
PendingPromises == {p \in PromiseIds : Pending(p)}
PendingCallers == {c \in Callers : awaiting[c] # NoPromise /\ Pending(awaiting[c])}

\* Somebody awaits promise p: a caller of refreshToken() or a suspended
\* timer, tick or handler callback.
Waits(aw, ts, p) == (\E c \in Callers : aw[c] = p) \/ (\E t \in ts : t.p = p)

\* Continuations of a settled promise run as microtasks, before any timer,
\* event or network completion: a macrotask starts only when none is queued.
MicrotasksDrained ==
  /\ \A c \in Callers : awaiting[c] # NoPromise => Pending(awaiting[c])
  /\ \A t \in tasks : t.p # NoPromise => Pending(t.p)

\* ---------------------------------------------------------------- initial
Init ==
  /\ accessToken = Null
  /\ authToken \in {Null} \cup Tokens
  /\ refreshStore \in {Null} \cup RefreshTokens
  /\ listeners = <<>>
  /\ persistRefreshToken = FALSE
  /\ config = FALSE
  /\ protocol \in {"http:", "https:"}
  /\ refreshInProgress = FALSE
  /\ refreshPromise = NoPromise
  /\ promises = [p \in PromiseIds |-> FreePromise]
  /\ awaiting = [c \in Callers |-> NoPromise]
  /\ flightFetches = 0
  /\ now = 0
  /\ callbackProcessed = FALSE
  /\ url = NoUrl
  /\ sessionKeys = FALSE
  /\ logoutInFlight = FALSE
  /\ proactiveRefreshTimer = NoTimer
  /\ pendingTimers = {}
  /\ sessionValidationTimer = FALSE
  /\ visibilityHandler = FALSE
  /\ sessionInvalidCallbacks = <<>>
  /\ tasks = {}
  /\ validationIntervals = 0
  /\ visibilityListeners = 0
  /\ hiddenAt = <<>>
  /\ visibilityState = "visible"
  /\ hiddenSince = <<>>
  /\ ev = NoEv

\* ------------------------------------------------ token store: application
Before(op, arg) ==
  [NoEv EXCEPT !.op = op, !.arg = arg, !.prevMem = accessToken,
               !.prevHeld = getTokenValue(accessToken, authToken),
               !.prevLs = authToken, !.prevRs = refreshStore,
               !.registered = listeners]

CallSetToken(token, throwers) ==
  LET r == setToken(accessToken, authToken, listeners, token, throwers) IN
  /\ MicrotasksDrained
  /\ Thrown(r.calls) = throwers
  /\ accessToken' = r.mem
  /\ authToken' = r.ls
  /\ ev' = [Before("setToken", token) EXCEPT !.calls = r.calls,
              !.throwers = throwers, !.propagated = r.propagated]
  /\ UNCHANGED <<refreshStore, listeners, cfgVars, refreshVars, extVars>>

CallGetToken ==
  /\ MicrotasksDrained
  /\ accessToken' = getTokenValue(accessToken, authToken)
  /\ ev' = [Before("getToken", Null) EXCEPT
              !.ret = getTokenValue(accessToken, authToken),
              !.stored = IF ev.op = "reload" THEN ev.stored ELSE Null]
  /\ UNCHANGED <<authToken, refreshStore, listeners, cfgVars, refreshVars, extVars>>

CallClearToken(throwers) ==
  LET r == clearToken(accessToken, authToken, refreshStore, listeners, throwers) IN
  /\ MicrotasksDrained
  /\ Thrown(r.calls) = throwers
  /\ accessToken' = r.mem
  /\ authToken' = r.ls
  /\ refreshStore' = r.rs
  /\ ev' = [Before("clearToken", Null) EXCEPT !.calls = r.calls,
              !.throwers = throwers, !.propagated = r.propagated]
  /\ UNCHANGED <<listeners, cfgVars, refreshVars, extVars>>

AddTokenListener(l) ==
  /\ MicrotasksDrained
  /\ listeners' = IF InSeq(l, listeners) THEN listeners ELSE Append(listeners, l)
  /\ ev' = [NoEv EXCEPT !.op = "addTokenListener"]
  /\ UNCHANGED <<accessToken, authToken, refreshStore, cfgVars, refreshVars, extVars>>

RemoveTokenListener(l) ==
  /\ MicrotasksDrained
  /\ InSeq(l, listeners)
  /\ listeners' = Remove(l, listeners)
  /\ ev' = [NoEv EXCEPT !.op = "removeTokenListener"]
  /\ UNCHANGED <<accessToken, authToken, refreshStore, cfgVars, refreshVars, extVars>>

CallSetRefreshToken(token) ==
  /\ MicrotasksDrained
  /\ refreshStore' = setRefreshToken(refreshStore, token, persistRefreshToken, protocol)
  /\ ev' = [Before("setRefreshToken", token) EXCEPT
              !.useLS = shouldUseLocalStorage(persistRefreshToken, protocol)]
  /\ UNCHANGED <<accessToken, authToken, listeners, cfgVars, refreshVars, extVars>>

CallClearRefreshToken ==
  /\ MicrotasksDrained
  /\ refreshStore' = clearRefreshToken(refreshStore)
  /\ ev' = Before("clearRefreshToken", Null)
  /\ UNCHANGED <<accessToken, authToken, listeners, cfgVars, refreshVars, extVars>>

\* setConfig(customConfig): persist is customConfig.persistRefreshToken, or
\* "absent" when the key is not given (the spread then keeps the old value).
SetConfig(persist) ==
  LET newCfg == IF persist = "absent" THEN config ELSE (persist = "true") IN
  /\ MicrotasksDrained
  /\ config' = newCfg
  /\ persistRefreshToken' = IF newCfg THEN TRUE ELSE persistRefreshToken
  /\ ev' = [NoEv EXCEPT !.op = "setConfig"]
  /\ UNCHANGED <<storeVars, protocol, refreshVars, extVars>>

\* A page load at a URL with query parameters u: module state starts over,
\* localStorage and sessionStorage are kept, requests in flight are abandoned
\* with the page.  ev.stored remembers the token a setToken(t) call stored
\* just before.
PageLoad(u) ==
  /\ accessToken' = Null
  /\ listeners' = <<>>
  /\ persistRefreshToken' = FALSE
  /\ config' = FALSE
  /\ refreshInProgress' = FALSE
  /\ refreshPromise' = NoPromise
  /\ promises' = [p \in PromiseIds |-> FreePromise]
  /\ awaiting' = [c \in Callers |-> NoPromise]
  /\ flightFetches' = 0
  /\ ev' = [NoEv EXCEPT !.op = "reload",
              !.stored = IF ev.op = "setToken" /\ ~Falsy(ev.arg) THEN ev.arg ELSE Null]
  /\ callbackProcessed' = FALSE
  /\ url' = u
  /\ logoutInFlight' = FALSE
  /\ proactiveRefreshTimer' = NoTimer
  /\ pendingTimers' = {}
  /\ sessionValidationTimer' = FALSE
  /\ visibilityHandler' = FALSE
  /\ sessionInvalidCallbacks' = <<>>
  /\ tasks' = {}
  /\ validationIntervals' = 0
  /\ visibilityListeners' = 0
  /\ hiddenAt' = <<>>
  /\ UNCHANGED <<authToken, refreshStore, protocol, now, sessionKeys,
                 visibilityState, hiddenSince>>

\* A reload of the page at the same URL.
Reload == PageLoad(url)

StoreNext ==
  \/ \E t \in Tokens \cup {Null, Undefined, Empty}, th \in SUBSET SeqSet(listeners) :
       CallSetToken(t, th)
  \/ CallGetToken
  \/ \E th \in SUBSET SeqSet(listeners) : CallClearToken(th)
  \/ \E l \in ListenerIds : AddTokenListener(l)
  \/ \E l \in ListenerIds : RemoveTokenListener(l)
  \/ \E t \in RefreshTokens \cup {Null} : CallSetRefreshToken(t)
  \/ CallClearRefreshToken
  \/ \E b \in {"true", "false", "absent"} : SetConfig(b)
  \/ Reload

\* -------------------------------------------------------- refresh coordinator
\* The guard with the flag test inverted: no call ever joins.
refreshGuard_inverted(inProgress, promise) == ~inProgress /\ promise # NoPromise

\* The guard of refreshToken(): join the pending promise instead of fetching.
refreshGuard(inProgress, promise) == inProgress /\ promise # NoPromise

\* The id the next `(async () => {...})()` promise gets.
NewPromise == CHOOSE p \in PromiseIds :
  promises[p].phase = "free" /\ \A q \in PromiseIds : promises[q].phase = "free" => p <= q

\* The try block without the `if (new_refresh_token)` test.
refreshSucceeded_alwaysStores(mem, ls, rs, lst, flag, proto, at, rt, throwers) ==
  LET r == setToken(mem, ls, lst, at, throwers) IN
  [mem |-> r.mem, ls |-> r.ls, rs |-> setRefreshToken(rs, rt, flag, proto),
   calls |-> r.calls, phase |-> "resolved", value |-> at]

\* The try block after a response with a truthy access_token:
\* setToken(access_token); if (new_refresh_token) setRefreshToken(new_refresh_token)
refreshSucceeded(mem, ls, rs, lst, flag, proto, at, rt, throwers) ==
  LET r == setToken(mem, ls, lst, at, throwers) IN
  [mem |-> r.mem, ls |-> r.ls,
   rs |-> IF ~Falsy(rt) THEN setRefreshToken(rs, rt, flag, proto) ELSE rs,
   calls |-> r.calls, phase |-> "resolved", value |-> at]

\* The catch block without clearToken().
refreshFailed_keepsToken(mem, ls, rs, lst, err, throwers) ==
  [mem |-> mem, ls |-> ls, rs |-> clearRefreshToken(rs),
   calls |-> <<>>, phase |-> "rejected", value |-> err]

\* The catch block: clearToken(); clearRefreshToken(); throw err
refreshFailed(mem, ls, rs, lst, err, throwers) ==
  LET r == clearToken(mem, ls, rs, lst, throwers) IN
  [mem |-> r.mem, ls |-> r.ls, rs |-> clearRefreshToken(r.rs),
   calls |-> r.calls, phase |-> "rejected", value |-> err]

\* The release done at the end of the try block instead of in finally.
refreshFinally_successOnly(path) ==
  IF path = "success"
    THEN [refreshInProgress |-> FALSE, refreshPromise |-> NoPromise]
    ELSE [refreshInProgress |-> refreshInProgress, refreshPromise |-> refreshPromise]

\* The finally block, run on the path ("success" or "fail") the body took.
refreshFinally(path) == [refreshInProgress |-> FALSE, refreshPromise |-> NoPromise]

\* refreshToken() called by caller c.
RefreshToken(c) ==
  /\ awaiting[c] = NoPromise
  /\ IF refreshGuard(refreshInProgress, refreshPromise)
       THEN /\ awaiting' = [awaiting EXCEPT ![c] = refreshPromise]
            /\ ev' = [NoEv EXCEPT !.op = "refreshToken", !.joined = TRUE,
                        !.p = refreshPromise, !.waiters = PendingCallers]
            /\ UNCHANGED <<refreshInProgress, refreshPromise, promises, flightFetches>>
       ELSE /\ \E p \in PromiseIds : promises[p].phase = "free"
            /\ refreshInProgress' = TRUE
            /\ promises' = [promises EXCEPT ![NewPromise] =
                              [phase |-> "fetch", status |-> "", value |-> Null]]
            /\ flightFetches' = flightFetches + 1
            /\ refreshPromise' = NewPromise
            /\ awaiting' = [awaiting EXCEPT ![c] = NewPromise]
            /\ ev' = [NoEv EXCEPT !.op = "refreshToken", !.fetched = TRUE,
                        !.p = NewPromise, !.waiters = PendingCallers]
  /\ UNCHANGED <<storeVars, cfgVars, extVars>>

\* The async body of promise p returns or throws: r is what the try or the
\* catch block did, then the finally block runs and the promise settles.
Settle(p, path, r, at, rt, throwers) ==
  LET f == refreshFinally(path) IN
  /\ Thrown(r.calls) = throwers
  /\ accessToken' = r.mem
  /\ authToken' = r.ls
  /\ refreshStore' = r.rs
  /\ refreshInProgress' = f.refreshInProgress
  /\ refreshPromise' = f.refreshPromise
  /\ promises' = [promises EXCEPT ![p] =
                    IF Waits(awaiting, tasks, p)
                      THEN [phase |-> r.phase, status |-> "", value |-> r.value]
                      ELSE FreePromise]
  /\ flightFetches' = IF PendingPromises = {p} THEN 0 ELSE flightFetches
  /\ ev' = [Before("refreshSettled", Null) EXCEPT
              !.p = p, !.path = path, !.calls = r.calls, !.throwers = throwers,
              !.err = IF path = "fail" THEN r.value ELSE "",
              !.ret = r.value, !.at = at, !.rt = rt,
              !.waiters = PendingCallers,
              !.useLS = shouldUseLocalStorage(persistRefreshToken, protocol)]
  /\ UNCHANGED <<listeners, cfgVars, awaiting, extVars>>

Fail(p, err, throwers) ==
  Settle(p, "fail",
         refreshFailed(accessToken, authToken, refreshStore, listeners, err, throwers),
         Null, Null, throwers)

\* Messages a rejected fetch (of the platform or of a wrapper installed over
\* it) carries, other than the browser's "Failed to fetch".
FetchErrors == {"Invalid URL", "Unauthorized", "Token REVOKED",
                "certificate has expired"}

\* `await fetch(...)` completes: a response (ok or not) or a network error.
FetchSettles(p, outcome) ==
  /\ MicrotasksDrained
  /\ promises[p].phase = "fetch"
  /\ IF outcome = "network"
       THEN Fail(p, "Failed to fetch", {})
       ELSE IF outcome \in FetchErrors
       THEN Fail(p, outcome, {})
       ELSE /\ promises' = [promises EXCEPT ![p] =
                 IF outcome = "ok"
                   THEN [phase |-> "json", status |-> "", value |-> Null]
                   ELSE [phase |-> "text", status |-> outcome, value |-> Null]]
            /\ ev' = [NoEv EXCEPT !.op = "fetchResponse", !.p = p]
            /\ UNCHANGED <<storeVars, cfgVars, refreshInProgress, refreshPromise,
                           awaiting, flightFetches, extVars>>

\* `await response.text()` completes on a non-ok response:
\* throw new Error(`Refresh failed: ${response.status}`)
TextSettles(p) ==
  /\ MicrotasksDrained
  /\ promises[p].phase = "text"
  /\ Fail(p, promises[p].status, {})

\* `await response.json()` completes: a body {access_token, refresh_token}
\* (either may be missing), or a body that does not parse.  Listener
\* exceptions never leave setToken/clearToken (notifyListeners), so the
\* listeners notified from here are taken not to throw.
JsonSettles(p, at, rt) ==
  /\ MicrotasksDrained
  /\ promises[p].phase = "json"
  /\ IF at = "unparsable"
       THEN Fail(p, "Unexpected token", {})
       ELSE IF Falsy(at)
         THEN Fail(p, "No access token in refresh response", {})
         ELSE Settle(p, "success",
                     refreshSucceeded(accessToken, authToken, refreshStore, listeners,
                                      persistRefreshToken, protocol, at, rt, {}),
                     at, rt, {})

\* The continuation of a caller awaiting a settled promise (a microtask).
Resume(c) ==
  /\ awaiting[c] # NoPromise
  /\ Settled(awaiting[c])
  /\ awaiting' = [awaiting EXCEPT ![c] = NoPromise]
  /\ promises' = [promises EXCEPT ![awaiting[c]] =
                    IF Waits([awaiting EXCEPT ![c] = NoPromise], tasks, awaiting[c])
                      THEN @ ELSE FreePromise]
  /\ ev' = [NoEv EXCEPT !.op = "resume", !.p = awaiting[c],
              !.path = promises[awaiting[c]].phase,
              !.ret = promises[awaiting[c]].value, !.waiters = {c}]
  /\ UNCHANGED <<storeVars, cfgVars, refreshInProgress, refreshPromise, flightFetches, extVars>>

RefreshNext ==
  \/ \E c \in Callers : MicrotasksDrained /\ RefreshToken(c)
  \/ \E p \in PromiseIds, o \in {"ok", "Refresh failed: 401", "Refresh failed: 500", "network"} :
       FetchSettles(p, o)
  \/ \E p \in PromiseIds : TextSettles(p)
  \/ \E p \in PromiseIds, at \in Tokens \cup {Null, "unparsable"},
        rt \in RefreshTokens \cup {Null} : JsonSettles(p, at, rt)
  \/ \E c \in Callers : Resume(c)

\* The application's use of the token store while refreshes run.
AppNext ==
  \/ \E t \in Tokens : CallSetToken(t, {})
  \/ CallClearToken({})
  \/ CallGetToken
  \/ \E l \in ListenerIds : l = Len(listeners) + 1 /\ AddTokenListener(l)
  \/ \E t \in RefreshTokens : CallSetRefreshToken(t)
  \/ \E b \in {"true", "false"} : SetConfig(b)

\* ------------------------------------------------------------ token expiry
\* Time passes: d half seconds.
Advance(d) ==
  /\ MicrotasksDrained
  /\ now + d <= MaxNow
  /\ now' = now + d
  /\ ev' = [NoEv EXCEPT !.op = "advance"]
  /\ UNCHANGED <<storeVars, cfgVars, refreshVars, callbackVars, monitorVars>>

CallGetTimeUntilExpiry(token) ==
  /\ MicrotasksDrained
  /\ ev' = [NoEv EXCEPT !.op = "getTimeUntilExpiry", !.arg = token,
              !.timeLeft = getTimeUntilExpiry(token, now)]
  /\ UNCHANGED <<storeVars, cfgVars, refreshVars, now, callbackVars, monitorVars>>

CallWillExpireSoon(token, withinSeconds) ==
  /\ MicrotasksDrained
  /\ ev' = [NoEv EXCEPT !.op = "willExpireSoon", !.arg = token,
              !.within = withinSeconds,
              !.timeLeft = getTimeUntilExpiry(token, now),
              !.soon = willExpireSoon(token, withinSeconds, now)]
  /\ UNCHANGED <<storeVars, cfgVars, refreshVars, now, callbackVars, monitorVars>>

ExpiryInputs == Tokens \cup OpaqueTokens \cup {Null, Undefined, Empty}

ExpiryNext ==
  \/ Advance(1)
  \/ \E t \in ExpiryInputs : CallGetTimeUntilExpiry(t)
  \/ \E t \in ExpiryInputs, w \in {<<>>} \cup {<<n>> : n \in 0..MaxWindow} :
       CallWillExpireSoon(t, w)

\* ------------------------------------------------------ callback processor
\* The latch kept set by resetCallbackState.
resetCallbackState_keeps(latch) == latch

\* resetCallbackState(): the new value of callbackProcessed
resetCallbackState(latch) == FALSE

\* The latch blocking whether or not a token is stored.
latchBlocks_always(latch, existingToken) == latch

\* if (callbackProcessed) { existingToken = getToken(); if (existingToken) return }
latchBlocks(latch, existingToken) == latch /\ ~Falsy(existingToken)

\* The access token taken before the error parameter is looked at.
callbackOutcome_tokenFirst(u) ==
  IF ~Falsy(u.access_token) THEN "token"
  ELSE IF ~Falsy(u.error) THEN "error" ELSE "missing"

\* What a processing call does with the URL: if (error) throw; if
\* (accessToken) store and return; else throw.
callbackOutcome(u) ==
  IF ~Falsy(u.error) THEN "error"
  ELSE IF ~Falsy(u.access_token) THEN "token" ELSE "missing"

\* The URL clean-up that leaves the state parameter in place.
stripCallbackParams_keepsState(u) ==
  [u EXCEPT !.access_token = Null, !.refresh_token = Null, !.error = Null,
            !.error_description = Null]

\* url.searchParams.delete(...) of the five callback parameters
stripCallbackParams(u) ==
  [u EXCEPT !.access_token = Null, !.refresh_token = Null, !.state = Null,
            !.error = Null, !.error_description = Null]

\* handleCallback() run on latch, token store, custody state and URL u: the
\* state it leaves, the listener calls it made, and what it returned (ret)
\* or threw (err, detail).
handleCallback(latch, mem, ls, rs, lst, cfg, flag, proto, u, keys) ==
  LET existingToken == getTokenValue(mem, ls)
      hydrated == IF latch THEN existingToken ELSE mem
      kept == [latch |-> TRUE, mem |-> hydrated, ls |-> ls, rs |-> rs, url |-> u,
               keys |-> FALSE, calls |-> <<>>, ret |-> Null, err |-> "",
               detail |-> Null]
  IN IF latchBlocks(latch, existingToken)
       THEN [kept EXCEPT !.latch = latch, !.keys = keys, !.ret = existingToken]
     ELSE IF callbackOutcome(u) = "error"
       THEN [kept EXCEPT !.err = "Authentication failed",
                         !.detail = IF ~Falsy(u.error_description)
                                      THEN u.error_description ELSE u.error]
     ELSE IF callbackOutcome(u) = "token"
       THEN LET st == setToken(hydrated, ls, lst, u.access_token, {})
                storeRefresh == ~Falsy(u.refresh_token) /\ (cfg \/ proto = "http:")
            IN [kept EXCEPT !.mem = st.mem, !.ls = st.ls,
                            !.rs = IF storeRefresh
                                     THEN setRefreshToken(rs, u.refresh_token, flag, proto)
                                     ELSE rs,
                            !.url = stripCallbackParams(u),
                            !.calls = st.calls, !.ret = u.access_token]
     ELSE [kept EXCEPT !.err = "No access token found in callback URL"]

HandleCallback ==
  LET r == handleCallback(callbackProcessed, accessToken, authToken, refreshStore,
                          listeners, config, persistRefreshToken, protocol, url,
                          sessionKeys) IN
  /\ MicrotasksDrained
  /\ callbackProcessed' = r.latch
  /\ accessToken' = r.mem
  /\ authToken' = r.ls
  /\ refreshStore' = r.rs
  /\ url' = r.url
  /\ sessionKeys' = r.keys
  /\ ev' = [Before("handleCallback", r.detail) EXCEPT
              !.latch = callbackProcessed, !.url = url, !.calls = r.calls,
              !.ret = r.ret, !.err = r.err,
              !.useLS = shouldUseLocalStorage(persistRefreshToken, protocol)]
  /\ UNCHANGED <<listeners, cfgVars, refreshVars, now, logoutInFlight, monitorVars>>

\* login(): resets the latch, then throws when clientKey or redirectUri is
\* missing (ok = FALSE), else records the login and starts the redirect.
Login(ok) ==
  /\ MicrotasksDrained
  /\ callbackProcessed' = resetCallbackState(callbackProcessed)
  /\ sessionKeys' = IF ok THEN TRUE ELSE sessionKeys
  /\ ev' = [NoEv EXCEPT !.op = "login", !.latch = callbackProcessed,
              !.err = IF ok THEN "" ELSE "Missing clientKey or redirectUri"]
  /\ UNCHANGED <<storeVars, cfgVars, refreshVars, now, url, logoutInFlight, monitorVars>>

\* logout(): resets the latch, reads the token, clears both stores; in router
\* mode routerLogout then awaits POST /logout.
Logout(router) ==
  LET c == clearToken(getTokenValue(accessToken, authToken), authToken,
                      refreshStore, listeners, {}) IN
  /\ MicrotasksDrained
  /\ callbackProcessed' = resetCallbackState(callbackProcessed)
  /\ accessToken' = c.mem
  /\ authToken' = c.ls
  /\ refreshStore' = clearRefreshToken(c.rs)
  /\ sessionKeys' = FALSE
  /\ logoutInFlight' = router
  /\ ev' = [Before("logout", Null) EXCEPT !.latch = callbackProcessed,
              !.calls = c.calls]
  /\ UNCHANGED <<listeners, cfgVars, refreshVars, now, url, monitorVars>>

\* routerLogout after its request settled (response or error): both paths
\* clearRefreshToken(); clearToken(); and redirect to /login.
LogoutSettles ==
  LET c == clearToken(accessToken, authToken, clearRefreshToken(refreshStore),
                      listeners, {}) IN
  /\ MicrotasksDrained
  /\ logoutInFlight
  /\ logoutInFlight' = FALSE
  /\ accessToken' = c.mem
  /\ authToken' = c.ls
  /\ refreshStore' = c.rs
  /\ ev' = [NoEv EXCEPT !.op = "logoutSettled", !.calls = c.calls]
  /\ UNCHANGED <<listeners, cfgVars, refreshVars, now, callbackProcessed, url,
                 sessionKeys, monitorVars>>

ResetCallbackState ==
  /\ MicrotasksDrained
  /\ callbackProcessed' = resetCallbackState(callbackProcessed)
  /\ ev' = [NoEv EXCEPT !.op = "resetCallbackState", !.latch = callbackProcessed]
  /\ UNCHANGED <<storeVars, cfgVars, refreshVars, now, url, sessionKeys,
                 logoutInFlight, monitorVars>>

\* The application navigates inside the page (history.pushState) to a URL
\* with query parameters u.
Navigate(u) ==
  /\ MicrotasksDrained
  /\ url' = u
  /\ ev' = [NoEv EXCEPT !.op = "navigate"]
  /\ UNCHANGED <<storeVars, cfgVars, refreshVars, now, callbackProcessed,
                 sessionKeys, logoutInFlight, monitorVars>>

CallbackNext ==
  \/ HandleCallback
  \/ \E ok \in BOOLEAN : Login(ok)
  \/ \E router \in BOOLEAN : Logout(router)
  \/ LogoutSettles
  \/ ResetCallbackState
  \/ \E u \in Urls : Navigate(u)
  \/ Reload

\* The application around the callback processor, with one token listener.
CallbackAppNext ==
  \/ CallClearToken({})
  \/ listeners = <<>> /\ AddTokenListener(1)
  \/ \E b \in {"true", "false"} : SetConfig(b)

\* ------------------------------------- proactive refresh, session monitor
\* The functions of this part call one another (an invalidation stops both
\* timers, a timer callback calls refreshToken() and startProactiveRefresh()),
\* so each is an operator on a record S of the state it may touch; an action
\* runs one entry point on the current state and commits the result.
\* S.calls are the token-listener calls made, S.notified the session-invalid
\* callback calls, S.validations and S.refreshes the validation requests sent
\* and the refreshToken() calls made, S.bearer the token in the Authorization
\* header of the validation request; S.ok is FALSE when a bound of the model
\* (promises, timers, suspended callbacks) would be exceeded.
Cur ==
  [mem |-> accessToken, ls |-> authToken, rs |-> refreshStore,
   timer |-> proactiveRefreshTimer, pending |-> pendingTimers,
   monitor |-> sessionValidationTimer, visibility |-> visibilityHandler,
   callbacks |-> sessionInvalidCallbacks,
   intervals |-> validationIntervals, subscriptions |-> visibilityListeners,
   hiddenAt |-> hiddenAt, visibilityState |-> visibilityState,
   hiddenSince |-> hiddenSince,
   inProgress |-> refreshInProgress, promise |-> refreshPromise,
   promises |-> promises, fetches |-> flightFetches, tasks |-> tasks,
   calls |-> <<>>, notified |-> <<>>, validations |-> 0, refreshes |-> 0,
   bearer |-> Null, ok |-> TRUE]

TokenRefreshBuffer == 2

Max(a, b) == IF a >= b THEN a ELSE b

\* getToken() on S
getTokenIn(S) == [S EXCEPT !.mem = getTokenValue(S.mem, S.ls)]

\* Some timer or subscription of the scheduler or the monitor is live in S.
TimersLive(S) ==
  S.monitor \/ S.visibility \/ (\E t \in S.pending : t.id = S.timer)

\* clearToken(); clearRefreshToken() on S.  Each token-listener call also
\* records whether the listener finds a timer live.
clearTokensIn(S) ==
  LET c == clearToken(S.mem, S.ls, S.rs, listeners, {}) IN
  [S EXCEPT !.mem = c.mem, !.ls = c.ls, !.rs = clearRefreshToken(c.rs),
            !.calls = @ \o [i \in 1..Len(c.calls) |->
                              [listener |-> c.calls[i].listener,
                               new |-> c.calls[i].new, prev |-> c.calls[i].prev,
                               seen |-> c.calls[i].seen, threw |-> c.calls[i].threw,
                               live |-> TimersLive(S)]]]

\* An async callback of the given kind suspends at an await: pc is "refresh"
\* (awaiting the promise p of refreshToken()) or "validate" (awaiting the
\* answer of validateCurrentSession()).  n tells equal suspended callbacks
\* apart; token is the token held when the request was made, the one the
\* result will be about.
suspend(S, kind, pc, p) ==
  IF Cardinality(S.tasks) >= MaxTasks THEN [S EXCEPT !.ok = FALSE]
  ELSE [S EXCEPT !.tasks = @ \cup
          {[kind |-> kind, pc |-> pc, p |-> p,
            token |-> getTokenValue(S.mem, S.ls),
            n |-> 1 + Cardinality({t \in S.tasks :
                                     t.kind = kind /\ t.pc = pc /\ t.p = p})]}]

\* refreshToken() called by a callback of the given kind, which then awaits
\* the promise: the pending one, or a new one with its network request.
refreshTokenIn(S, kind) ==
  IF refreshGuard(S.inProgress, S.promise)
    THEN suspend([S EXCEPT !.refreshes = @ + 1], kind, "refresh", S.promise)
  ELSE IF \A p \in PromiseIds : S.promises[p].phase # "free"
    THEN [S EXCEPT !.ok = FALSE]
  ELSE LET p == CHOOSE q \in PromiseIds :
                  /\ S.promises[q].phase = "free"
                  /\ \A r \in PromiseIds : S.promises[r].phase = "free" => q <= r
       IN suspend([S EXCEPT !.inProgress = TRUE, !.promise = p,
                            !.promises[p] = [phase |-> "fetch", status |-> "",
                                             value |-> Null],
                            !.fetches = @ + 1, !.refreshes = @ + 1],
                  kind, "refresh", p)

\* The session-invalid callbacks that throw when they are invoked.
ThrowingCallbacks == {1}

\* notifySessionInvalid without the try/catch: the first throwing callback
\* ends the forEach.
notifySessionInvalid_noCatch(S, reason) ==
  LET bad == {i \in 1..Len(S.callbacks) : S.callbacks[i] \in ThrowingCallbacks}
      last == IF bad = {} THEN Len(S.callbacks)
              ELSE CHOOSE i \in bad : \A j \in bad : i <= j
  IN [S EXCEPT !.notified = @ \o
        [i \in 1..last |->
           [callback |-> S.callbacks[i], reason |-> reason,
            seen |-> getTokenValue(S.mem, S.ls), live |-> TimersLive(S),
            threw |-> S.callbacks[i] \in ThrowingCallbacks]]]

\* notifySessionInvalid(reason): every registered callback, in insertion
\* order, each inside its own try/catch.  seen is what getToken() returns
\* inside the callback, live whether it finds a timer live.
notifySessionInvalid(S, reason) ==
  [S EXCEPT !.notified = @ \o
     [i \in 1..Len(S.callbacks) |->
        [callback |-> S.callbacks[i], reason |-> reason,
         seen |-> getTokenValue(S.mem, S.ls), live |-> TimersLive(S),
         threw |-> S.callbacks[i] \in ThrowingCallbacks]]]

\* stopProactiveRefresh(): clearTimeout(proactiveRefreshTimer) and null it.
stopProactiveRefresh(S) ==
  [S EXCEPT !.pending = {t \in @ : t.id # S.timer}, !.timer = NoTimer]

\* stopSessionMonitor(): if the handle is set, clearInterval and null it; if
\* the handler is set, removeEventListener and null it.  hiddenAt belongs to
\* the handler's closure and goes with it.
stopSessionMonitor(S) ==
  [S EXCEPT !.monitor = FALSE, !.visibility = FALSE,
            !.intervals = IF S.monitor THEN @ - 1 ELSE @,
            !.subscriptions = IF S.visibility THEN @ - 1 ELSE @,
            !.hiddenAt = IF S.visibility THEN <<>> ELSE @]

\* The invalidation that leaves the proactive-refresh timer running.
invalidate_keepsProactive(S, reason) ==
  notifySessionInvalid(clearTokensIn(stopSessionMonitor(S)), reason)

\* The invalidation sequence of the session monitor: stopSessionMonitor();
\* stopProactiveRefresh(); clearToken(); clearRefreshToken();
\* notifySessionInvalid(reason)
invalidate(S, reason) ==
  notifySessionInvalid(
    clearTokensIn(stopProactiveRefresh(stopSessionMonitor(S))), reason)

\* proactiveRefreshTimer = setTimeout(callback, delay seconds): a timer of the
\* given kind ("refresh" or "retry") with an id no pending timer and no
\* handle holds.
setTimeoutIn(S, kind, delay) ==
  LET free == TimerIds \ ({t.id : t \in S.pending} \cup {S.timer}) IN
  IF free = {} THEN [S EXCEPT !.ok = FALSE]
  ELSE LET id == CHOOSE i \in free : \A j \in free : i <= j
       IN [S EXCEPT !.pending = @ \cup {[id |-> id, kind |-> kind, delay |-> delay]},
                    !.timer = id]

\* The start that sets a zero-delay timer for a token that has expired.
startProactiveRefresh_expiredWaits(S, enabled) ==
  IF ~enabled THEN S
  ELSE LET A == getTokenIn(stopProactiveRefresh(S))
           timeUntilExpiry == getTimeUntilExpiry(A.mem, now)
       IN IF Falsy(A.mem) THEN A
          ELSE setTimeoutIn(A, "refresh", Max(0, timeUntilExpiry - TokenRefreshBuffer))

\* The schedule without Math.max(0, ...).
startProactiveRefresh_noClamp(S, enabled) ==
  IF ~enabled THEN S
  ELSE LET A == getTokenIn(stopProactiveRefresh(S))
           timeUntilExpiry == getTimeUntilExpiry(A.mem, now)
       IN IF Falsy(A.mem) THEN A
          ELSE IF timeUntilExpiry <= 0 THEN refreshTokenIn(A, "expired")
          ELSE setTimeoutIn(A, "refresh", timeUntilExpiry - TokenRefreshBuffer)

\* startProactiveRefresh(); enabled is config.enableProactiveRefresh.
startProactiveRefresh(S, enabled) ==
  IF ~enabled THEN S
  ELSE LET A == getTokenIn(stopProactiveRefresh(S))
           timeUntilExpiry == getTimeUntilExpiry(A.mem, now)
       IN IF Falsy(A.mem) THEN A
          ELSE IF timeUntilExpiry <= 0 THEN refreshTokenIn(A, "expired")
          ELSE setTimeoutIn(A, "refresh", Max(0, timeUntilExpiry - TokenRefreshBuffer))

\* validateCurrentSession() up to its request: with no token it answers false
\* at once (invalid TRUE), else the request is sent and the caller suspends.
\* config.authBaseUrl is taken to be set.
validateCurrentSession(S, kind) ==
  LET A == getTokenIn(S) IN
  IF Falsy(A.mem) THEN [state |-> A, invalid |-> TRUE]
  ELSE [state |-> suspend([A EXCEPT !.validations = @ + 1, !.bearer = A.mem],
                          kind, "validate", NoPromise),
        invalid |-> FALSE]

\* The periodic tick from `const isValid = await validateCurrentSession()` on.
tickValidate(S) ==
  LET v == validateCurrentSession(S, "tick") IN
  IF v.invalid THEN invalidate(v.state, "session_deleted") ELSE v.state

\* The answer handling that returns false for every failure.
validationAnswer_errorIsFalse(outcome) ==
  IF outcome = "valid" THEN "true" ELSE "false"

\* What validateCurrentSession() makes of the answer to its request: "false"
\* for HTTP 401 and for a body whose valid is not true, "true" for a body
\* {valid: true}, "throw" for another non-ok status (Error `HTTP 500: ...`)
\* and for a rejected fetch, whose messages do not include '401'.
validationAnswer(outcome) ==
  CASE outcome = "valid" -> "true"
    [] outcome \in {"invalid", "401"} -> "false"
    [] OTHER -> "throw"

\* String.prototype.toLowerCase on the messages refreshToken() rejects with.
toLowerCase(s) ==
  CASE s = "Refresh failed: 401" -> "refresh failed: 401"
    [] s = "Refresh failed: 500" -> "refresh failed: 500"
    [] s = "Failed to fetch" -> "failed to fetch"
    [] s = "Invalid URL" -> "invalid url"
    [] s = "Unauthorized" -> "unauthorized"
    [] s = "Token REVOKED" -> "token revoked"
    [] s = "No access token in refresh response" ->
         "no access token in refresh response"
    [] s = "Unexpected token" -> "unexpected token"
    [] OTHER -> s

\* String.prototype.includes (case-sensitive) for the five substrings the
\* timer callback looks for, on the messages above and their lower-case forms.
includes(s, sub) ==
  CASE s \in {"Refresh failed: 401", "refresh failed: 401"} -> sub = "401"
    [] s = "invalid url" -> sub = "invalid"
    [] s = "unauthorized" -> sub = "unauthorized"
    [] s = "token revoked" -> sub = "revoked"
    [] s = "certificate has expired" -> sub = "expired"
    [] OTHER -> FALSE

\* The classification that compares the message as it is.
isPermanentFailure_caseSensitive(err) ==
  \E sub \in {"401", "revoked", "invalid", "expired", "unauthorized"} :
    includes(err, sub)

\* errorMessage = err.message?.toLowerCase() || ''; isPermanentFailure =
\* errorMessage.includes('401') || 'revoked' || 'invalid' || 'expired' ||
\* 'unauthorized'
isPermanentFailure(err) ==
  LET errorMessage == toLowerCase(err) IN
  \E sub \in {"401", "revoked", "invalid", "expired", "unauthorized"} :
    includes(errorMessage, sub)

SessionValidationInterval == 2
MaxClock == 3

\* startSessionMonitor without the stopSessionMonitor() call.
startSessionMonitor_noStop(S, enabled, onVisibility, c) ==
  LET R == [S EXCEPT !.callbacks = IF c = 0 \/ InSeq(c, @) THEN @ ELSE Append(@, c)]
      A == getTokenIn(R)
  IN IF ~enabled THEN S
     ELSE IF Falsy(A.mem) THEN A
     ELSE [A EXCEPT !.monitor = TRUE, !.intervals = @ + 1,
                    !.visibility = onVisibility,
                    !.subscriptions = IF onVisibility THEN @ + 1 ELSE @,
                    !.hiddenAt = <<>>]

\* startSessionMonitor(onInvalid): the callback is added, the running monitor
\* stopped, and with a token held setInterval and (validateOnVisibility)
\* addEventListener are called; hiddenAt starts as null.
startSessionMonitor(S, enabled, onVisibility, c) ==
  LET R == [S EXCEPT !.callbacks = IF c = 0 \/ InSeq(c, @) THEN @ ELSE Append(@, c)]
      A == getTokenIn(stopSessionMonitor(R))
  IN IF ~enabled THEN S
     ELSE IF Falsy(A.mem) THEN A
     ELSE [A EXCEPT !.monitor = TRUE, !.intervals = @ + 1,
                    !.visibility = onVisibility,
                    !.subscriptions = IF onVisibility THEN @ + 1 ELSE @,
                    !.hiddenAt = <<>>]

\* hiddenAt ? Date.now() - hiddenAt : 0, in the clock's half seconds.
\* Date.now() is never 0, so only null (<<>>) is falsy here.
hiddenDuration(S) == IF S.hiddenAt = <<>> THEN 0 ELSE now - S.hiddenAt[1]

\* Which branch the visible handler takes.
visibilityCase(S) ==
  LET token == getTokenValue(S.mem, S.ls)
      ttl == getTimeUntilExpiry(token, now)
  IN IF Falsy(token) THEN "no token"
     ELSE IF ttl > 0 /\ hiddenDuration(S) < SessionValidationInterval THEN "brief"
     ELSE IF ttl > 0 /\ hiddenDuration(S) >= SessionValidationInterval THEN "long"
     ELSE "expired"

\* The visibility handler with document.visibilityState 'visible', up to its
\* first await.
visibilityVisible(S) ==
  LET A == getTokenIn(S)
      B == [A EXCEPT !.hiddenAt = <<>>]
      case == visibilityCase(S)
      v == validateCurrentSession(B, "visibleValid")
  IN CASE case = "no token" -> A
       [] case = "brief" -> B
       [] case = "long" ->
            IF v.invalid THEN invalidate(v.state, "session_deleted_while_hidden")
            ELSE v.state
       [] OTHER ->
            refreshTokenIn(B, IF hiddenDuration(S) >= SessionValidationInterval
                                THEN "visibleExpiredLong" ELSE "visibleExpired")

\* What the callback of the given kind does with the answer of
\* validateCurrentSession(): the tick and the handler's case 2 invalidate on
\* false and swallow an error; in case 3 the error lands in
\* catch (refreshErr) and the invalidation below it runs.
afterValidation(S, kind, answer) ==
  CASE kind = "tick" ->
         IF answer = "false" THEN invalidate(S, "session_deleted") ELSE S
    [] kind = "visibleValid" ->
         IF answer = "false" THEN invalidate(S, "session_deleted_while_hidden")
         ELSE S
    [] OTHER ->
         IF answer = "true" THEN S
         ELSE invalidate(S, "session_deleted_while_hidden")

\* The handler's case 3 after `await refreshToken()`.
visibleRefreshed(S, kind, rejected) ==
  LET v == validateCurrentSession(S, kind) IN
  IF rejected THEN invalidate(S, "session_deleted_while_hidden")
  ELSE IF kind = "visibleExpiredLong"
    THEN IF v.invalid THEN invalidate(v.state, "session_deleted_while_hidden")
         ELSE v.state
  ELSE S

\* The observation of a call that starts or stops a timer.
TimerEv(op, S) ==
  [NoEv EXCEPT !.op = op, !.refreshes = S.refreshes,
               !.prevTimer = proactiveRefreshTimer, !.prevPending = pendingTimers,
               !.prevMonitor = sessionValidationTimer]

\* The observation of a stop call: what it must leave alone.
StopEv(op) ==
  [Before(op, Null) EXCEPT
     !.prevTimer = proactiveRefreshTimer, !.prevPending = pendingTimers,
     !.prevMonitor = sessionValidationTimer,
     !.prevCallbacks = sessionInvalidCallbacks,
     !.prevIntervals = validationIntervals,
     !.prevSubscriptions = visibilityListeners]

MonitorEv(op, kind, outcome, S) ==
  [Before(op, Null) EXCEPT
     !.kind = kind, !.outcome = outcome, !.calls = S.calls,
     !.notified = S.notified, !.callbacks = sessionInvalidCallbacks,
     !.validations = S.validations, !.refreshes = S.refreshes,
     !.at = S.bearer,
     !.prevTimer = proactiveRefreshTimer, !.prevPending = pendingTimers,
     !.prevMonitor = sessionValidationTimer]

Commit(S, e) ==
  /\ S.ok
  /\ accessToken' = S.mem
  /\ authToken' = S.ls
  /\ refreshStore' = S.rs
  /\ proactiveRefreshTimer' = S.timer
  /\ pendingTimers' = S.pending
  /\ sessionValidationTimer' = S.monitor
  /\ visibilityHandler' = S.visibility
  /\ sessionInvalidCallbacks' = S.callbacks
  /\ refreshInProgress' = S.inProgress
  /\ refreshPromise' = S.promise
  /\ promises' = S.promises
  /\ flightFetches' = S.fetches
  /\ tasks' = S.tasks
  /\ validationIntervals' = S.intervals
  /\ visibilityListeners' = S.subscriptions
  /\ hiddenAt' = S.hiddenAt
  /\ visibilityState' = S.visibilityState
  /\ hiddenSince' = S.hiddenSince
  /\ ev' = e
  /\ UNCHANGED <<listeners, cfgVars, awaiting, now, callbackVars>>

StartProactiveRefresh(enabled) ==
  LET S == startProactiveRefresh(Cur, enabled) IN
  /\ MicrotasksDrained
  /\ Commit(S, [TimerEv("startProactiveRefresh", S) EXCEPT !.enabled = enabled])

StopProactiveRefresh ==
  LET S == stopProactiveRefresh(Cur) IN
  /\ MicrotasksDrained
  /\ Commit(S, StopEv("stopProactiveRefresh"))

\* onSessionInvalid(callback)
OnSessionInvalid(c) ==
  LET S == [Cur EXCEPT !.callbacks = IF InSeq(c, @) THEN @ ELSE Append(@, c)] IN
  /\ MicrotasksDrained
  /\ Commit(S, TimerEv("onSessionInvalid", S))

\* startSessionMonitor(onInvalid): enabled is config.enableSessionValidation,
\* onVisibility is config.validateOnVisibility, c = 0 when no callback is
\* passed.
StartSessionMonitor(enabled, onVisibility, c) ==
  LET S == startSessionMonitor(Cur, enabled, onVisibility, c) IN
  /\ MicrotasksDrained
  /\ Commit(S, [TimerEv("startSessionMonitor", S) EXCEPT !.enabled = enabled])

StopSessionMonitor ==
  LET S == stopSessionMonitor(Cur) IN
  /\ MicrotasksDrained
  /\ Commit(S, StopEv("stopSessionMonitor"))

\* startSessionSecurity(callback): startProactiveRefresh();
\* startSessionMonitor(callback)
StartSessionSecurity(proactive, enabled, onVisibility, c) ==
  LET S == startSessionMonitor(startProactiveRefresh(Cur, proactive),
                               enabled, onVisibility, c) IN
  /\ MicrotasksDrained
  /\ Commit(S, [TimerEv("startSessionSecurity", S) EXCEPT !.enabled = enabled])

\* stopSessionSecurity(): stopProactiveRefresh(); stopSessionMonitor();
\* sessionInvalidCallbacks.clear()
StopSessionSecurity ==
  LET S == [stopSessionMonitor(stopProactiveRefresh(Cur)) EXCEPT !.callbacks = <<>>] IN
  /\ MicrotasksDrained
  /\ Commit(S, StopEv("stopSessionSecurity"))

\* The tick that validates without refreshing an expired token first.
Tick_noRefresh ==
  LET A == getTokenIn(Cur)
      ttl == getTimeUntilExpiry(A.mem, now)
      S == IF Falsy(A.mem) THEN stopSessionMonitor(A) ELSE tickValidate(A)
  IN /\ MicrotasksDrained
     /\ validationIntervals > 0
     /\ Commit(S, MonitorEv("tick", "tick",
                            IF Falsy(A.mem) THEN "no token"
                            ELSE IF ttl <= 0 THEN "expired" ELSE "unexpired", S))

\* The setInterval callback runs, up to its first await.
Tick ==
  LET A == getTokenIn(Cur)
      ttl == getTimeUntilExpiry(A.mem, now)
      S == IF Falsy(A.mem) THEN stopSessionMonitor(A)
           ELSE IF ttl <= 0 THEN refreshTokenIn(A, "tick")
           ELSE tickValidate(A)
  IN /\ MicrotasksDrained
     /\ validationIntervals > 0
     /\ Commit(S, MonitorEv("tick", "tick",
                            IF Falsy(A.mem) THEN "no token"
                            ELSE IF ttl <= 0 THEN "expired" ELSE "unexpired", S))

\* The tab is hidden: visibilitychange with visibilityState 'hidden'.
Hide ==
  LET S == [Cur EXCEPT !.visibilityState = "hidden", !.hiddenSince = <<now>>,
                       !.hiddenAt = IF visibilityListeners > 0 THEN <<now>> ELSE @]
  IN /\ MicrotasksDrained
     /\ visibilityState = "visible"
     /\ Commit(S, MonitorEv("hidden", "", "", S))

\* The tab becomes visible: visibilitychange with visibilityState 'visible';
\* the handler, if attached, runs up to its first await.
Show ==
  LET R == [Cur EXCEPT !.visibilityState = "visible", !.hiddenSince = <<>>]
      S == IF visibilityListeners > 0 THEN visibilityVisible(R) ELSE R
  IN /\ MicrotasksDrained
     /\ visibilityState = "hidden"
     /\ Commit(S, [MonitorEv("visible", "visible",
                             IF visibilityListeners > 0
                               THEN visibilityCase(Cur) ELSE "detached", S)
                     EXCEPT !.hidden = now - hiddenSince[1]])

\* The validation request of a suspended callback t is answered: "valid" and
\* "invalid" are 200 bodies {valid: true / false}, "401" and "500" the HTTP
\* status of a non-ok response, "network" a rejected fetch.
ValidationSettles(t, outcome) ==
  LET R == [Cur EXCEPT !.tasks = @ \ {t}]
      S == afterValidation(R, t.kind, validationAnswer(outcome))
  IN /\ MicrotasksDrained
     /\ t \in tasks
     /\ t.pc = "validate"
     /\ Commit(S, [MonitorEv("validationSettled", t.kind, outcome, S)
                     EXCEPT !.arg = t.token])

\* The proactive-refresh timer fires: await refreshToken()
ProactiveFires(tm) ==
  LET S == refreshTokenIn([Cur EXCEPT !.pending = @ \ {tm}], "proactive") IN
  /\ MicrotasksDrained
  /\ tm \in pendingTimers
  /\ tm.kind = "refresh"
  /\ Commit(S, TimerEv("proactiveFired", S))

\* The 30 s retry timer fires: startProactiveRefresh()
RetryFires(tm, enabled) ==
  LET S == startProactiveRefresh([Cur EXCEPT !.pending = @ \ {tm}], enabled) IN
  /\ MicrotasksDrained
  /\ tm \in pendingTimers
  /\ tm.kind = "retry"
  /\ Commit(S, [TimerEv("retryFired", S) EXCEPT !.enabled = enabled])

\* A callback suspended on the promise of refreshToken() resumes once the
\* promise has settled (a microtask).  enabled is config.enableProactiveRefresh
\* as the proactive callback's startProactiveRefresh() reads it.
TaskResumes(t, enabled) ==
  LET rejected == promises[t.p].phase = "rejected"
      err == promises[t.p].value
      left == tasks \ {t}
      R == [Cur EXCEPT !.tasks = left,
                       !.promises[t.p] = IF Waits(awaiting, left, t.p)
                                           THEN @ ELSE FreePromise]
      S == CASE t.kind = "tick" ->
                  IF rejected THEN invalidate(R, "session_deleted")
                  ELSE tickValidate(R)
             [] t.kind = "proactive" ->
                  IF ~rejected THEN startProactiveRefresh(R, enabled)
                  ELSE IF isPermanentFailure(err)
                    THEN notifySessionInvalid(R, "refresh_token_revoked")
                  ELSE setTimeoutIn(R, "retry", 30)
             [] t.kind = "expired" ->
                  IF rejected THEN notifySessionInvalid(R, "token_expired") ELSE R
             [] OTHER -> visibleRefreshed(R, t.kind, rejected)
  IN /\ t \in tasks
     /\ t.pc = "refresh"
     /\ Settled(t.p)
     /\ \A u \in tasks : u.pc = "refresh" /\ Settled(u.p) /\ u.kind = t.kind => u.n <= t.n
     /\ Commit(S, [MonitorEv("taskResumed", t.kind,
                             IF rejected THEN "rejected" ELSE "resolved", S)
                     EXCEPT !.enabled = enabled, !.err = IF rejected THEN err ELSE "",
                            !.arg = t.token,
                            !.ret = IF rejected THEN Null ELSE promises[t.p].value])

MonitorNext ==
  \/ \E enabled \in BOOLEAN : StartProactiveRefresh(enabled)
  \/ StopProactiveRefresh
  \/ \E c \in CallbackIds : c = Len(sessionInvalidCallbacks) + 1 /\ OnSessionInvalid(c)
  \/ \E enabled, onVisibility \in BOOLEAN, c \in {0} \cup CallbackIds :
       (c # 0 => c = Len(sessionInvalidCallbacks) + 1)
         /\ StartSessionMonitor(enabled, onVisibility, c)
  \/ StopSessionMonitor
  \/ Tick
  \/ \E t \in tasks, o \in {"valid", "invalid", "401", "500", "network"} :
       ValidationSettles(t, o)
  \/ \E tm \in pendingTimers : ProactiveFires(tm)
  \/ \E tm \in pendingTimers, enabled \in BOOLEAN : RetryFires(tm, enabled)
  \/ \E t \in tasks, enabled \in BOOLEAN : TaskResumes(t, enabled)

\* What goes on around the scheduler and the monitor: the refresh requests
\* are answered and time passes, once: token t1 expires, t2 is still good.
MonitorEnvNext ==
  \/ \E p \in PromiseIds, o \in {"ok", "Refresh failed: 401", "network"} :
       FetchSettles(p, o)
  \/ \E p \in PromiseIds : TextSettles(p)
  \/ \E p \in PromiseIds, at \in Tokens \cup {Null}, rt \in {"r1", Null} :
       JsonSettles(p, at, rt)
  \/ now = 0 /\ Advance(4)

\* The session monitor with its visibility handler, started and stopped by
\* the application on its own or with the scheduler (startSessionSecurity);
\* the clock moves in half seconds up to MaxClock, by when token t1 has
\* expired and t2 has not.
SessionNext ==
  \/ \E onVisibility \in BOOLEAN, c \in {0} \cup CallbackIds :
       (c # 0 => c = Len(sessionInvalidCallbacks) + 1)
         /\ StartSessionMonitor(TRUE, onVisibility, c)
  \/ StopSessionMonitor
  \/ \E c \in CallbackIds :
       c = Len(sessionInvalidCallbacks) + 1 /\ StartSessionSecurity(TRUE, TRUE, TRUE, c)
  \/ StopSessionSecurity
  \/ Tick
  \/ Hide
  \/ Show
  \/ \E t \in tasks, o \in {"valid", "invalid", "401", "500", "network"} :
       ValidationSettles(t, o)
  \/ \E t \in tasks : TaskResumes(t, TRUE)
  \/ \E p \in PromiseIds, o \in {"ok", "network"} : FetchSettles(p, o)
  \/ \E p \in PromiseIds, at \in Tokens : JsonSettles(p, at, Null)
  \/ now < MaxClock /\ Advance(1)

\* The proactive-refresh scheduler on its own: the application starts and
\* stops it and registers callbacks, timers fire, the refresh requests are
\* answered or fail with one of the error messages, the clock moves in half
\* seconds up to MaxClock.  The server may also hand out a token that is not
\* a JWT.
ProactiveNext ==
  \/ \E enabled \in BOOLEAN : StartProactiveRefresh(enabled)
  \/ StopProactiveRefresh
  \/ \E c \in CallbackIds : c = Len(sessionInvalidCallbacks) + 1 /\ OnSessionInvalid(c)
  \/ \E tm \in pendingTimers : ProactiveFires(tm)
  \/ \E tm \in pendingTimers, enabled \in BOOLEAN : RetryFires(tm, enabled)
  \/ \E t \in tasks, enabled \in BOOLEAN : TaskResumes(t, enabled)
  \/ \E p \in PromiseIds,
        o \in {"ok", "Refresh failed: 401", "Refresh failed: 500", "network"}
               \cup FetchErrors : FetchSettles(p, o)
  \/ \E p \in PromiseIds : TextSettles(p)
  \/ \E p \in PromiseIds, at \in Tokens \cup {"garbage", Null, "unparsable"} :
       JsonSettles(p, at, Null)
  \/ now < MaxClock /\ Advance(1)

\* The scheduler left to itself: it is started (and started again), never
\* stopped, and every refresh request is answered with a token.
LoopNext ==
  \/ StartProactiveRefresh(TRUE)
  \/ \E tm \in pendingTimers : ProactiveFires(tm)
  \/ \E t \in tasks : TaskResumes(t, TRUE)
  \/ \E p \in PromiseIds : FetchSettles(p, "ok")
  \/ \E p \in PromiseIds, at \in Tokens : JsonSettles(p, at, Null)
  \/ now < MaxClock /\ Advance(1)

\* The scheduler started by the application only when it is idle (no timer,
\* no refresh under way) and stopped at any moment; the refresh requests are
\* answered with a token or fail on the network.
StopNext ==
  \/ /\ proactiveRefreshTimer = NoTimer
     /\ pendingTimers = {}
     /\ tasks = {}
     /\ ~refreshInProgress
     /\ StartProactiveRefresh(TRUE)
  \/ StopProactiveRefresh
  \/ \E tm \in pendingTimers : ProactiveFires(tm)
  \/ \E tm \in pendingTimers : RetryFires(tm, TRUE)
  \/ \E t \in tasks : TaskResumes(t, TRUE)
  \/ \E p \in PromiseIds, o \in {"ok", "network"} : FetchSettles(p, o)
  \/ \E p \in PromiseIds, at \in Tokens : JsonSettles(p, at, Null)
  \/ now < MaxClock /\ Advance(1)

\* The monitor and the scheduler started together, with a token listener
\* and session-invalid callbacks registered (the first one throws); ticks and
\* visibility changes, answers of every kind, and the clock jumping once to
\* the expiry of token t1.
InvalidateNext ==
  \/ listeners = <<>> /\ AddTokenListener(1)
  \/ \E c \in CallbackIds : c = Len(sessionInvalidCallbacks) + 1 /\ OnSessionInvalid(c)
  \/ \E c \in {0} \cup CallbackIds :
       (c # 0 => c = Len(sessionInvalidCallbacks) + 1)
         /\ StartSessionSecurity(TRUE, TRUE, TRUE, c)
  \/ Tick
  \/ Hide
  \/ Show
  \/ \E t \in tasks, o \in {"valid", "invalid", "401", "500", "network"} :
       ValidationSettles(t, o)
  \/ \E t \in tasks : TaskResumes(t, TRUE)
  \/ \E p \in PromiseIds, o \in {"ok", "network"} : FetchSettles(p, o)
  \/ \E p \in PromiseIds, at \in Tokens : JsonSettles(p, at, Null)
  \/ now = 0 /\ Advance(4)

\* The monitor and the scheduler at work while the application replaces the
\* held token (setToken, as the login callback does at its end).
LateNext ==
  \/ \E c \in {0} \cup CallbackIds :
       (c # 0 => c = Len(sessionInvalidCallbacks) + 1)
         /\ StartSessionSecurity(TRUE, TRUE, TRUE, c)
  \/ \E t \in Tokens : CallSetToken(t, {})
  \/ Tick
  \/ Hide
  \/ Show
  \/ \E t \in tasks, o \in {"valid", "invalid", "network"} : ValidationSettles(t, o)
  \/ \E t \in tasks : TaskResumes(t, TRUE)
  \/ \E p \in PromiseIds, o \in {"ok", "network"} : FetchSettles(p, o)
  \/ \E p \in PromiseIds, at \in Tokens : JsonSettles(p, at, Null)
  \/ now = 0 /\ Advance(4)

\* The scheduler and the monitor left running while the application logs
\* out in router mode: logout() clears the stores and its request to the
\* server is in flight until LogoutSettles.
LogoutNext ==
  \/ \E c \in {0, 1} :
       (c # 0 => c = Len(sessionInvalidCallbacks) + 1)
         /\ StartSessionSecurity(TRUE, TRUE, TRUE, c)
  \/ Logout(TRUE)
  \/ LogoutSettles
  \/ \E tm \in pendingTimers : ProactiveFires(tm)
  \/ \E tm \in pendingTimers : RetryFires(tm, TRUE)
  \/ Tick
  \/ Hide
  \/ Show
  \/ \E t \in tasks, o \in {"valid", "invalid"} : ValidationSettles(t, o)
  \/ \E t \in tasks : TaskResumes(t, TRUE)
  \/ \E p \in PromiseIds, o \in {"ok", "network"} : FetchSettles(p, o)
  \/ \E p \in PromiseIds, at \in Tokens : JsonSettles(p, at, Null)
  \/ now = 0 /\ Advance(4)

\* Every writer of the access-token store within one page: the application's
\* setToken, getToken and clearToken, handleCallback on the URLs it is given,
\* refreshToken with its answers, and logout.
MirrorNext ==
  \/ \E t \in Tokens \cup {Null, Undefined, Empty} : CallSetToken(t, {})
  \/ CallGetToken
  \/ CallClearToken({})
  \/ \E u \in Urls : u.error = Null /\ u.refresh_token = Null /\ Navigate(u)
  \/ HandleCallback
  \/ \E router \in BOOLEAN : Logout(router)
  \/ LogoutSettles
  \/ \E c \in Callers : MicrotasksDrained /\ RefreshToken(c)
  \/ \E p \in PromiseIds, o \in {"ok", "network"} : FetchSettles(p, o)
  \/ \E p \in PromiseIds, at \in Tokens \cup {Null} : JsonSettles(p, at, Null)
  \/ \E c \in Callers : Resume(c)

Next == StoreNext \/ RefreshNext \/ ExpiryNext \/ CallbackNext \/ MonitorNext
          \/ MonitorEnvNext \/ SessionNext \/ ProactiveNext \/ LoopNext
          \/ StopNext \/ InvalidateNext \/ LateNext
          \/ LogoutNext \/ MirrorNext

SpecStore == Init /\ [][StoreNext]_vars
SpecRefresh == Init /\ [][AppNext \/ RefreshNext]_vars

SpecMirror == Init /\ [][MirrorNext]_vars
SpecExpiry == Init /\ [][ExpiryNext]_vars
SpecCallback == Init /\ [][CallbackNext \/ CallbackAppNext]_vars
\* The scheduler and the monitor on an http page (refresh tokens kept in
\* localStorage) that loads with a persisted session.
InitMonitor ==
  /\ Init
  /\ protocol = "http:"
  /\ authToken \in Tokens
  /\ refreshStore = "r1"
SpecMonitor == InitMonitor /\ [][MonitorNext \/ MonitorEnvNext]_vars

SpecProactive == InitMonitor /\ [][ProactiveNext]_vars
SpecLoop == InitMonitor /\ [][LoopNext]_vars
SpecStop == InitMonitor /\ [][StopNext]_vars
SpecInvalidate == InitMonitor /\ [][InvalidateNext]_vars
SpecLate == InitMonitor /\ [][LateNext]_vars
SpecLogout == InitMonitor /\ [][LogoutNext]_vars
SpecSession == InitMonitor /\ [][SessionNext]_vars

Spec == Init /\ [][Next]_vars

\* ------------------------------------------------------------------ claims
\* What one notification round must look like: every listener registered at
\* the call is invoked exactly once, each with (new, prev).
NotifiedOnce(calls, registered, new, prev) ==
  /\ \A l \in SeqSet(registered) :
       Cardinality({i \in 1..Len(calls) : calls[i].listener = l}) = 1
  /\ \A i \in 1..Len(calls) :
       /\ calls[i].listener \in SeqSet(registered)
       /\ calls[i].new = new
       /\ calls[i].prev = prev

Norm(x) == IF Falsy(x) THEN Null ELSE x
StoreOps == {"setToken", "clearToken"}

\* C1: single-flight refresh. While a refresh is pending there is one pending
\* promise and exactly one network request has been issued for it; a
\* refreshToken() call made while one is pending joins it and fetches nothing;
\* and when the attempt settles, every caller that was waiting is on the one
\* settled promise, so all of them get the same outcome.
C1_SingleFlight ==
  /\ Cardinality(PendingPromises) <= 1
  /\ (PendingPromises # {} => flightFetches = 1)
  /\ \A c \in PendingCallers : awaiting[c] = refreshPromise
  /\ (ev.op = "refreshToken" /\ ev.waiters # {} =>
        ev.joined /\ ~ev.fetched /\ flightFetches = 1)
  /\ (ev.op = "refreshSettled" =>
        /\ flightFetches = 0
        /\ \A c \in ev.waiters : awaiting[c] = ev.p
        /\ Settled(ev.p)
        /\ PendingCallers = {})

C1_Witness ==
  /\ ev.op = "refreshSettled"
  /\ Cardinality(ev.waiters) >= 2

\* C2: a failed refresh attempt (network error, non-ok status, unparsable
\* body, body without access token) leaves no access token in memory or in
\* persistent storage and no stored refresh token, has notified every listener
\* once with (null, previous) when a token was held in memory, and rejects the
\* promise every waiting caller is on with the error.
C2_FailureClears ==
  /\ (ev.op = "refreshSettled" /\ ev.path = "fail" =>
        /\ accessToken = Null
        /\ authToken = Null
        /\ getTokenValue(accessToken, authToken) = Null
        /\ refreshStore = Null
        /\ (~Falsy(ev.prevMem) => NotifiedOnce(ev.calls, ev.registered, Null, ev.prevMem))
        /\ promises[ev.p].phase = "rejected"
        /\ promises[ev.p].value = ev.err
        /\ ev.err # ""
        /\ ev.waiters # {}
        /\ \A c \in ev.waiters : awaiting[c] = ev.p)
  /\ (ev.op = "resume" /\ ev.path = "rejected" => ev.ret \notin Tokens \cup {Null})

C2_Witness ==
  /\ ev.op = "refreshSettled"
  /\ ev.path = "fail"
  /\ ev.prevMem \in Tokens
  /\ ev.prevRs \in RefreshTokens
  /\ Len(ev.calls) >= 1
  /\ Cardinality(ev.waiters) >= 2

\* C3: a successful refresh attempt leaves the server's access token in the
\* store (memory and persistent storage), notifies the listeners once iff it
\* differs from the previous in-memory token, and stores the rotated refresh
\* token iff the response carried one and the custody mode allows script
\* storage; otherwise refresh-token storage is unchanged.
C3_SuccessStores ==
  ev.op = "refreshSettled" /\ ev.path = "success" =>
    /\ ev.at \in Tokens
    /\ accessToken = ev.at
    /\ authToken = ev.at
    /\ IF ev.prevMem # ev.at
         THEN NotifiedOnce(ev.calls, ev.registered, ev.at, ev.prevMem)
         ELSE ev.calls = <<>>
    /\ refreshStore = IF ~Falsy(ev.rt) /\ ev.useLS THEN ev.rt ELSE ev.prevRs
    /\ promises[ev.p].phase = "resolved"
    /\ promises[ev.p].value = ev.at

C3_Witness ==
  /\ ev.op = "refreshSettled"
  /\ ev.path = "success"
  /\ ev.rt \in RefreshTokens
  /\ ev.useLS
  /\ ev.prevRs \in RefreshTokens
  /\ ev.prevRs # ev.rt
  /\ refreshStore = ev.rt
  /\ Len(ev.calls) >= 1

\* C4: the in-flight guard is held as long as the refresh is pending and is
\* released on every completion path: with no attempt pending the guard is
\* open, and a refreshToken() call made then issues a new network request.
C4_GuardReleased ==
  /\ (PendingPromises # {} =>
        refreshGuard(refreshInProgress, refreshPromise) /\ Pending(refreshPromise))
  /\ (PendingPromises = {} => ~refreshGuard(refreshInProgress, refreshPromise))
  /\ (ev.op = "refreshSettled" => ~refreshInProgress /\ refreshPromise = NoPromise)
  /\ (ev.op = "refreshToken" /\ ev.waiters = {} =>
        ev.fetched /\ ~ev.joined /\ Pending(ev.p) /\ flightFetches = 1)

C4_Witness ==
  /\ ev.op = "refreshSettled"
  /\ ev.path = "fail"
  /\ ev.err = "Failed to fetch"
  /\ ~refreshInProgress
  /\ refreshPromise = NoPromise

\* C5: for every setToken or clearToken call, each registered listener is
\* invoked exactly once with (newToken, previousToken) if the token the store
\* holds (what getToken() returns, a persisted token not yet hydrated
\* included) differs after the call from before it, and zero times if not.
C5_NotifyIffHeldChanged ==
  ev.op \in StoreOps =>
    IF getTokenValue(accessToken, authToken) # ev.prevHeld
      THEN NotifiedOnce(ev.calls, ev.registered,
                        getTokenValue(accessToken, authToken), ev.prevHeld)
      ELSE ev.calls = <<>>

\* C6: in setToken(a); setToken(a) the second call invokes no listener and
\* leaves the in-memory token and persistent storage as the first call left
\* them; '' / undefined / null count as the same value.
C6_SetTokenIdempotent ==
  [][(ev.op = "setToken" /\ ev'.op = "setToken" /\ Norm(ev'.arg) = Norm(ev.arg)) =>
       /\ ev'.calls = <<>>
       /\ accessToken' = accessToken
       /\ authToken' = authToken
       /\ accessToken' = Norm(ev.arg)
       /\ authToken' = Norm(ev.arg)]_vars

C6_Witness ==
  /\ ev.op = "setToken"
  /\ ev.arg \in Tokens
  /\ ev.prevMem = ev.arg
  /\ ev.prevLs = ev.arg
  /\ Len(ev.registered) >= 1
  /\ ev.calls = <<>>

\* C7: when a listener is invoked with (newToken, previousToken) the store
\* already holds newToken: getToken() inside the listener returns newToken,
\* and the call returns with the store holding that value.
C7_NotifyAfterMutation ==
  ev.op \in StoreOps =>
    \A i \in 1..Len(ev.calls) :
      /\ ev.calls[i].seen = ev.calls[i].new
      /\ getTokenValue(accessToken, authToken) = ev.calls[i].new
      /\ ev.calls[i].prev = ev.prevMem

C7_Witness ==
  /\ ev.op = "setToken"
  /\ Len(ev.calls) >= 2
  /\ ev.prevMem \in Tokens
  /\ ev.calls[1].new \in Tokens

\* C8: when some of the notified listeners throw, every registered listener is
\* still invoked exactly once, nothing propagates to the caller of
\* setToken/clearToken, and the mutation of memory and storage is kept.
C8_ListenerIsolation ==
  ev.op \in StoreOps /\ ev.throwers # {} =>
    /\ ~ev.propagated
    /\ \A l \in SeqSet(ev.registered) :
         Cardinality({i \in 1..Len(ev.calls) : ev.calls[i].listener = l}) = 1
    /\ accessToken = (IF ev.op = "setToken" THEN Norm(ev.arg) ELSE Null)
    /\ authToken = accessToken

C8_Witness ==
  /\ ev.op \in StoreOps
  /\ Len(ev.registered) >= 2
  /\ ev.registered[1] \in ev.throwers
  /\ ev.registered[2] \notin ev.throwers
  /\ Len(ev.calls) = Len(ev.registered)

\* C9: clearToken() with a token held in memory leaves memory null, removes
\* the persistent entry, clears refresh-token storage and invokes every
\* registered listener exactly once with (null, previousToken).
C9_ClearHeld ==
  ev.op = "clearToken" /\ ~Falsy(ev.prevMem) =>
    /\ accessToken = Null
    /\ authToken = Null
    /\ refreshStore = Null
    /\ NotifiedOnce(ev.calls, ev.registered, Null, ev.prevMem)

C9_Witness ==
  /\ ev.op = "clearToken"
  /\ ev.prevMem \in Tokens
  /\ ev.prevRs \in RefreshTokens
  /\ Len(ev.calls) >= 2

\* C10: clearToken() with no token in memory clears the persistent entry and
\* refresh-token storage, invokes no listener and leaves memory null; every
\* clearToken() ends in that state, so a second clearToken() fires nothing
\* and changes nothing.
C10_ClearEmpty ==
  /\ (ev.op = "clearToken" /\ Falsy(ev.prevMem) =>
        /\ ev.calls = <<>>
        /\ accessToken = Null
        /\ authToken = Null
        /\ refreshStore = Null)
  /\ (ev.op = "clearToken" =>
        accessToken = Null /\ authToken = Null /\ refreshStore = Null)

C10_Witness ==
  /\ ev.op = "clearToken"
  /\ ev.prevMem = Null
  /\ ev.prevLs \in Tokens
  /\ ev.prevRs \in RefreshTokens
  /\ Len(ev.registered) >= 1
  /\ ev.calls = <<>>
\* C11: getToken() hydration round trip.  After setToken(t) followed by a
\* page reload, getToken() returns t and caches it in memory; getToken()
\* returns the in-memory token whenever one is present; and it never invokes
\* a listener and never changes persistent storage.
C11_GetTokenHydrates ==
  ev.op = "getToken" =>
    /\ (ev.stored # Null => ev.ret = ev.stored /\ accessToken = ev.stored)
    /\ (~Falsy(ev.prevMem) => ev.ret = ev.prevMem)
    /\ ev.calls = <<>>
    /\ authToken = ev.prevLs
    /\ refreshStore = ev.prevRs

C11_Witness ==
  /\ ev.op = "getToken"
  /\ ev.stored \in Tokens
  /\ ev.prevMem = Null
  /\ ev.ret = ev.stored
  /\ accessToken = ev.stored

\* C12: refresh-token round trip by custody mode.  Right after
\* setRefreshToken(x), getRefreshToken() returns x when the explicit-storage
\* mode is active and null when the cookie-custody mode is active, whatever
\* an earlier call (made in either mode) left in storage.
C12_RefreshRoundTrip ==
  ev.op = "setRefreshToken" /\ ev.arg \in RefreshTokens =>
    getRefreshToken(refreshStore, persistRefreshToken, protocol) =
      (IF persistRefreshToken \/ protocol = "http:" THEN ev.arg ELSE Null)

C12_Witness ==
  /\ ev.op = "setRefreshToken"
  /\ ev.arg \in RefreshTokens
  /\ ~ev.useLS
  /\ ev.prevRs \in RefreshTokens \ {ev.arg}
  /\ getRefreshToken(refreshStore, persistRefreshToken, protocol) = Null

\* C13: custody follows the configuration.  Whenever the configuration
\* selects cookie custody (config.persistRefreshToken false on an https page)
\* getRefreshToken() returns null, so a refresh request carries no refresh
\* token, and no operation writes a refresh token to localStorage.
CookieCustodySelected == ~config /\ protocol = "https:"

C13_CookieCustodyKeepsTokenFromScript ==
  CookieCustodySelected =>
    /\ getRefreshToken(refreshStore, persistRefreshToken, protocol) = Null
    /\ (ev.op \in {"setRefreshToken", "handleCallback", "refreshSettled"} =>
          refreshStore \in {Null, ev.prevRs})
\* The token's exp claim when it has a readable one.
HasExp(token) == ~Falsy(token) /\ ~NoExp(decode(token))
Within(w) == IF w = <<>> THEN 60 ELSE w[1]

\* C14: willExpireSoon(token, w) is true exactly when
\* 0 <= getTimeUntilExpiry(token) <= w.  For a token expiring at exp seconds
\* that is from w seconds (and a fraction) before exp up to exp itself: true
\* with exactly w or exactly 0 seconds left, false with w + 1 or -1.
C14_WillExpireSoonWindow ==
  ev.op = "willExpireSoon" =>
    /\ ev.soon <=> (0 <= getTimeUntilExpiry(ev.arg, now)
                     /\ getTimeUntilExpiry(ev.arg, now) <= Within(ev.within))
    /\ (HasExp(ev.arg) =>
          LET left == 2 * decode(ev.arg).exp - now IN
          /\ (left = 2 * Within(ev.within) => ev.soon /\ ev.timeLeft = Within(ev.within))
          /\ (left = 0 => ev.soon /\ ev.timeLeft = 0)
          /\ (left = 2 * (Within(ev.within) + 1) => ~ev.soon)
          /\ (left \in {-1, -2} => ~ev.soon /\ ev.timeLeft = -1)
          /\ (ev.soon <=> left >= 0 /\ left <= 2 * Within(ev.within) + 1))

C14_Witness ==
  /\ ev.op = "willExpireSoon"
  /\ HasExp(ev.arg)
  /\ ev.within # <<>>
  /\ Within(ev.within) >= 1
  /\ ev.timeLeft = Within(ev.within)
  /\ ev.soon

\* C15: for a token with no decodable expiry getTimeUntilExpiry returns -1
\* and willExpireSoon(token, w) returns true for every window w.
C15_NoExpiryExpiresSoon ==
  /\ (ev.op = "getTimeUntilExpiry" /\ ev.arg \in OpaqueTokens => ev.timeLeft = -1)
  /\ (ev.op = "willExpireSoon" /\ ev.arg \in OpaqueTokens =>
        ev.timeLeft = -1 /\ ev.soon)
\* The URL carries none of the five callback parameters.
Stripped(u) ==
  /\ u.access_token = Null
  /\ u.refresh_token = Null
  /\ u.state = Null
  /\ u.error = Null
  /\ u.error_description = Null

\* C16: the idempotency latch.  A handleCallback() call made with the latch
\* set and a token still stored returns that token without throwing, without
\* changing the token the store holds or the refresh storage, without invoking a
\* listener and without rewriting the URL, whatever parameters the URL
\* carries; with the latch set but no token stored it does exactly what a
\* first call on the same URL does.
C16_LatchReturnsStored ==
  ev.op = "handleCallback" /\ ev.latch =>
    IF ev.prevHeld # Null
      THEN /\ ev.ret = ev.prevHeld
           /\ ev.err = ""
           /\ ev.calls = <<>>
           /\ getTokenValue(accessToken, authToken) = ev.prevHeld
           /\ (ev.prevMem # Null => accessToken = ev.prevMem)
           /\ authToken = ev.prevLs
           /\ refreshStore = ev.prevRs
           /\ url = ev.url
           /\ callbackProcessed
      ELSE LET first == handleCallback(FALSE, ev.prevMem, ev.prevLs, ev.prevRs,
                                       ev.registered, config, persistRefreshToken,
                                       protocol, ev.url, TRUE)
           IN /\ ev.ret = first.ret
              /\ ev.err = first.err
              /\ ev.arg = first.detail
              /\ ev.calls = first.calls
              /\ accessToken = first.mem
              /\ authToken = first.ls
              /\ refreshStore = first.rs
              /\ url = first.url
              /\ callbackProcessed = first.latch
              /\ (ev.url.error = Null /\ ev.url.access_token # Null =>
                    ev.ret = ev.url.access_token /\ accessToken = ev.ret)
              /\ (ev.url.error # Null \/ ev.url.access_token = Null => ev.err # "")

C16_Witness ==
  /\ ev.op = "handleCallback"
  /\ ev.latch
  /\ ev.prevHeld \in Tokens
  /\ ev.url.access_token \in Tokens \ {ev.prevHeld}
  /\ ev.url.refresh_token # Null
  /\ ev.registered # <<>>
  /\ ev.ret = ev.prevHeld

\* C17: with the latch clear, handleCallback() throws when the URL carries an
\* error parameter (even next to an access token) or carries neither an error
\* nor an access token; the token store (memory and persistent entry) and the
\* refresh storage are unchanged and no listener is invoked.
C17_CallbackFailure ==
  ev.op = "handleCallback" /\ ~ev.latch
    /\ (ev.url.error # Null \/ ev.url.access_token = Null) =>
      /\ ev.err = (IF ev.url.error # Null THEN "Authentication failed"
                   ELSE "No access token found in callback URL")
      /\ ev.ret = Null
      /\ accessToken = ev.prevMem
      /\ authToken = ev.prevLs
      /\ refreshStore = ev.prevRs
      /\ ev.calls = <<>>

C17_Witness ==
  /\ ev.op = "handleCallback"
  /\ ~ev.latch
  /\ ev.url.error # Null
  /\ ev.url.access_token \in Tokens
  /\ ev.registered # <<>>
  /\ ev.err = "Authentication failed"
  /\ ev.arg = "denied"

\* What a successful handleCallback() leaves: the URL's access token stored
\* in memory and in the persistent entry and returned, every listener
\* notified once if the held token changed, the URL's refresh token written
\* only in explicit-storage mode (and then written), never in cookie mode,
\* and a URL without the five callback parameters.
CallbackSucceeded ==
  /\ ev.ret = ev.url.access_token
  /\ ev.err = ""
  /\ accessToken = ev.url.access_token
  /\ authToken = ev.url.access_token
  /\ (ev.prevHeld # ev.url.access_token =>
        NotifiedOnce(ev.calls, ev.registered, ev.url.access_token, ev.prevMem))
  /\ (refreshStore # ev.prevRs =>
        ev.useLS /\ ~CookieCustodySelected /\ refreshStore = ev.url.refresh_token)
  /\ (ev.url.refresh_token # Null /\ ~CookieCustodySelected =>
        refreshStore = ev.url.refresh_token)
  /\ Stripped(url)

\* C18, as stated: every handleCallback() on a URL with an access token and
\* no error stores and returns that token and cleans the URL.
C18_CallbackSuccess_AsStated ==
  ev.op = "handleCallback" /\ ev.url.access_token # Null /\ ev.url.error = Null =>
    CallbackSucceeded

\* C18: a handleCallback() that is not stopped by the latch (latch clear, or
\* no token stored), on a URL with an access token and no error, stores that
\* token, notifies listeners if it changed, returns it, writes the URL's
\* refresh token only in explicit-storage mode, and leaves a URL without
\* access_token, refresh_token, state, error and error_description.
C18_CallbackSuccess ==
  ev.op = "handleCallback" /\ ev.url.access_token # Null /\ ev.url.error = Null
    /\ (~ev.latch \/ ev.prevHeld = Null) =>
      CallbackSucceeded

C18_Witness ==
  /\ ev.op = "handleCallback"
  /\ ~ev.latch
  /\ ev.url.access_token \in Tokens
  /\ ev.url.error = Null
  /\ ev.url.refresh_token # Null
  /\ ev.url.state # Null
  /\ ev.registered # <<>>
  /\ ev.useLS
  /\ refreshStore = ev.url.refresh_token
  /\ ev.prevRs # refreshStore
  /\ ev.ret = ev.url.access_token
  /\ Stripped(url)

\* C19: the latch does not survive a new login cycle.  login(), logout() and
\* resetCallbackState() leave the latch clear; a clear latch is set only by a
\* handleCallback(), and that call processes the URL it finds: it stores and
\* returns the URL's access token, or throws.
C19_LatchClearedByLoginCycle ==
  [][/\ (ev'.op \in {"login", "logout", "resetCallbackState"} => ~callbackProcessed')
     /\ (~callbackProcessed /\ callbackProcessed' => ev'.op = "handleCallback")
     /\ (~callbackProcessed /\ ev'.op = "handleCallback" =>
           /\ ~ev'.latch
           /\ ev'.url = url
           /\ callbackProcessed'
           /\ IF url.error = Null /\ url.access_token # Null
                THEN ev'.ret = url.access_token /\ accessToken' = url.access_token
                ELSE ev'.err # "")]_vars

C19_Witness ==
  /\ ev.op \in {"login", "logout", "resetCallbackState"}
  /\ ev.latch
  /\ ~callbackProcessed
  /\ url.access_token \in Tokens
\* Every callback registered at the call was invoked exactly once, with the
\* reason, and nothing else was invoked.
InvalidNotifiedOnce(notified, callbacks, reason) ==
  /\ \A c \in SeqSet(callbacks) :
       Cardinality({i \in 1..Len(notified) : notified[i].callback = c}) = 1
  /\ \A i \in 1..Len(notified) :
       notified[i].callback \in SeqSet(callbacks) /\ notified[i].reason = reason

\* C20: when the server answers a periodic tick's validation request with
\* invalid ({valid: false} or HTTP 401), then right afterwards no access
\* token is held in memory or in persistent storage, the refresh storage is
\* empty, the periodic timer is stopped, the proactive-refresh handle is null
\* and the timer it referred to is cancelled, and every registered
\* session-invalid callback was invoked exactly once with session_deleted.
C20_TickInvalidates ==
  ev.op = "validationSettled" /\ ev.kind = "tick" /\ ev.outcome \in {"invalid", "401"} =>
    /\ accessToken = Null
    /\ authToken = Null
    /\ getTokenValue(accessToken, authToken) = Null
    /\ refreshStore = Null
    /\ ~sessionValidationTimer
    /\ ~visibilityHandler
    /\ proactiveRefreshTimer = NoTimer
    /\ \A t \in pendingTimers : t.id # ev.prevTimer
    /\ InvalidNotifiedOnce(ev.notified, ev.callbacks, "session_deleted")

C20_Witness ==
  /\ ev.op = "validationSettled"
  /\ ev.kind = "tick"
  /\ ev.outcome = "401"
  /\ now = 0
  /\ ev.prevHeld \in Tokens
  /\ ev.prevRs # Null
  /\ ev.prevMonitor
  /\ \E t \in ev.prevPending : t.id = ev.prevTimer
  /\ Len(ev.callbacks) = 2
  /\ Len(ev.notified) = 2

\* C21: a periodic tick whose validation call fails with a network error or
\* a non-401 HTTP error does not invalidate: the access token, the refresh
\* token storage, the periodic timer, the proactive-refresh timer and the
\* callback set are as before, no session-invalid callback and no token
\* listener is called, and the interval that ticked keeps running, so the
\* next tick validates again.
C21_TickErrorIgnored ==
  (ev.op = "validationSettled" /\ ev.kind = "tick"
     /\ ev.outcome \in {"500", "network"})
  => /\ accessToken = ev.prevMem
     /\ authToken = ev.prevLs
     /\ refreshStore = ev.prevRs
     /\ sessionValidationTimer = ev.prevMonitor
     /\ (ev.prevMonitor => validationIntervals > 0)
     /\ proactiveRefreshTimer = ev.prevTimer
     /\ pendingTimers = ev.prevPending
     /\ sessionInvalidCallbacks = ev.callbacks
     /\ ev.notified = <<>>
     /\ ev.calls = <<>>

\* A tick's validation fails on the network while a token is held, both
\* timers run and a callback is registered.
C21_Witness ==
  /\ ev.op = "validationSettled"
  /\ ev.kind = "tick"
  /\ ev.outcome = "network"
  /\ ev.prevMonitor
  /\ ev.prevHeld \in Tokens
  /\ \E t \in pendingTimers : t.id = proactiveRefreshTimer
  /\ sessionInvalidCallbacks # <<>>

\* C22: when the tab becomes visible with a token that has not expired, the
\* handler sends nothing if the tab was hidden for less than the validation
\* interval, and sends exactly one validation request and calls refreshToken()
\* not at all if it was hidden for at least the interval; a valid answer to
\* that request changes nothing and notifies nobody.
C22_VisibleValidates ==
  /\ (ev.op = "visible" /\ ev.outcome # "detached"
        /\ getTimeUntilExpiry(ev.prevHeld, now) > 0)
     => /\ ev.refreshes = 0
        /\ ev.validations = IF ev.hidden < SessionValidationInterval THEN 0 ELSE 1
  /\ (ev.op = "validationSettled" /\ ev.kind = "visibleValid"
        /\ ev.outcome = "valid")
     => /\ accessToken = ev.prevMem
        /\ authToken = ev.prevLs
        /\ refreshStore = ev.prevRs
        /\ sessionValidationTimer = ev.prevMonitor
        /\ proactiveRefreshTimer = ev.prevTimer
        /\ pendingTimers = ev.prevPending
        /\ sessionInvalidCallbacks = ev.callbacks
        /\ ev.notified = <<>>

\* What a call that schedules the proactive refresh must leave: one new
\* "refresh" timer, referenced by the handle, due max(0, ttl - buffer) seconds
\* from now with ttl the held token's time until expiry, next to the timers
\* that were pending before and that the handle did not reference.
ScheduledFromExpiry ==
  LET ttl == getTimeUntilExpiry(accessToken, now)
      kept == {t \in ev.prevPending : t.id # ev.prevTimer}
  IN \E t \in pendingTimers :
       /\ t.id = proactiveRefreshTimer
       /\ t.kind = "refresh"
       /\ t.delay = (IF ttl > TokenRefreshBuffer THEN ttl - TokenRefreshBuffer ELSE 0)
       /\ t.delay >= 0
       /\ t.id \notin {k.id : k \in kept}
       /\ pendingTimers = kept \cup {t}

\* C23 as stated: startProactiveRefresh(), enabled, with a held token that has
\* ttl > 0 seconds left schedules exactly one timer at max(0, ttl - buffer);
\* the timer's callback calls refreshToken() exactly once; after every
\* successful refresh the next timer is scheduled from the refreshed token's
\* expiry.
C23_ScheduleFromExpiry_AsStated ==
  /\ (ev.op = "startProactiveRefresh" /\ ev.enabled
        /\ getTimeUntilExpiry(accessToken, now) > 0) => ScheduledFromExpiry
  /\ ev.op = "proactiveFired" => ev.refreshes = 1
  /\ (ev.op = "taskResumed" /\ ev.kind = "proactive" /\ ev.outcome = "resolved"
        /\ ev.enabled) => ScheduledFromExpiry

\* C23: as above, with the next timer scheduled after a successful refresh
\* when the refreshed token has time left (ttl' > 0).
C23_ScheduleFromExpiry ==
  /\ (ev.op = "startProactiveRefresh" /\ ev.enabled
        /\ getTimeUntilExpiry(accessToken, now) > 0) => ScheduledFromExpiry
  /\ ev.op = "proactiveFired" => ev.refreshes = 1
  /\ (ev.op = "taskResumed" /\ ev.kind = "proactive" /\ ev.outcome = "resolved"
        /\ ev.enabled /\ getTimeUntilExpiry(accessToken, now) > 0)
     => ScheduledFromExpiry

\* The timer's refresh succeeded with a token that expires in less than the
\* buffer, and the next timer is due at once.
C23_Witness ==
  /\ ev.op = "taskResumed"
  /\ ev.kind = "proactive"
  /\ ev.outcome = "resolved"
  /\ ev.enabled
  /\ getTimeUntilExpiry(accessToken, now) > 0
  /\ getTimeUntilExpiry(accessToken, now) < TokenRefreshBuffer
  /\ \E t \in pendingTimers : t.id = proactiveRefreshTimer /\ t.delay = 0

\* The callbacks a step invoked.
Notified(e) == {e.notified[i].callback : i \in 1..Len(e.notified)}

\* C24: a session-invalid callback is invoked at most once per invalidation
\* episode.  Two steps in a row belong to one episode (nothing happens between
\* them, no session is established), so no callback is invoked by both: not
\* by two callbacks that resume from the same failed refresh, nor by two that
\* get their validation answers one after the other.
C24_OncePerEpisode ==
  [][Notified(ev) \cap Notified(ev') = {}]_vars

\* C25: in every reachable state at most one proactive-refresh timer is
\* pending, and a pending timer is the one the handle proactiveRefreshTimer
\* references (no timer is left behind by a start, a stop, a fire or a
\* refresh completion).
C25_OneProactiveTimer ==
  /\ Cardinality(pendingTimers) <= 1
  /\ \A t \in pendingTimers : t.id = proactiveRefreshTimer

\* C26: in every reachable state at most one periodic-validation timer and at
\* most one visibilitychange listener are live, each the one its handle
\* references; a start on top of a running monitor does not add to them, and
\* after stopSessionMonitor() neither is left.
C26_OneMonitor ==
  /\ validationIntervals = (IF sessionValidationTimer THEN 1 ELSE 0)
  /\ visibilityListeners = (IF visibilityHandler THEN 1 ELSE 0)
  /\ ev.op = "stopSessionMonitor" =>
       validationIntervals = 0 /\ visibilityListeners = 0

\* The monitor is started while it is running with its visibility handler
\* attached.
C26_Witness ==
  /\ ev.op \in {"startSessionMonitor", "startSessionSecurity"}
  /\ ev.prevMonitor
  /\ validationIntervals = 1
  /\ visibilityListeners = 1

\* The reasons of a terminal invalidation.
TerminalReasons ==
  {"session_deleted", "session_deleted_while_hidden", "refresh_token_revoked",
   "token_expired"}

\* C27: once logout() has returned, and once the callbacks have been notified
\* of a terminal invalidation, no proactive-refresh timer is pending and no
\* periodic-validation timer is live.
C27_NoTimerAfterEnd ==
  (\/ ev.op = "logout"
   \/ \E i \in 1..Len(ev.notified) : ev.notified[i].reason \in TerminalReasons)
  => pendingTimers = {} /\ validationIntervals = 0

\* What a stop call must leave alone: the token store, the refresh token
\* storage, the token listeners (none is called) and the callback set.
StoresUntouched ==
  /\ accessToken = ev.prevMem
  /\ authToken = ev.prevLs
  /\ refreshStore = ev.prevRs
  /\ sessionInvalidCallbacks = ev.prevCallbacks
  /\ ev.calls = <<>>

\* C28: stopProactiveRefresh() and stopSessionMonitor(), in whatever state
\* they are called (started or not, stopped already or not), leave no pending
\* timer of their kind (the monitor: no visibility listener either), leave the
\* other kind's timers as they were, and leave the stores and the callback
\* set unchanged; a second call in a row changes nothing.
C28_StopsSafe ==
  /\ ev.op = "stopProactiveRefresh" =>
       /\ pendingTimers = {}
       /\ proactiveRefreshTimer = NoTimer
       /\ validationIntervals = ev.prevIntervals
       /\ visibilityListeners = ev.prevSubscriptions
       /\ StoresUntouched
  /\ ev.op = "stopSessionMonitor" =>
       /\ validationIntervals = 0
       /\ visibilityListeners = 0
       /\ ~sessionValidationTimer
       /\ ~visibilityHandler
       /\ pendingTimers = ev.prevPending
       /\ proactiveRefreshTimer = ev.prevTimer
       /\ StoresUntouched

\* C29: when the refresh of the timer callback fails with a network error or
\* an HTTP 5xx, no callback is notified and a retry timer is set 30 seconds
\* out; when the retry fires (proactive refresh still enabled, no stop in
\* between) the cycle starts over: a refresh is attempted at once or a refresh
\* timer is pending whose callback will attempt it.
C29_TransientRetry ==
  /\ (ev.op = "taskResumed" /\ ev.kind = "proactive" /\ ev.outcome = "rejected"
        /\ ev.err \in {"Failed to fetch", "Refresh failed: 500"})
     => /\ ev.notified = <<>>
        /\ \E t \in pendingTimers :
             t.id = proactiveRefreshTimer /\ t.kind = "retry" /\ t.delay = 30
  /\ (ev.op = "retryFired" /\ ev.enabled)
     => \/ ev.refreshes = 1
        \/ \E t \in pendingTimers : t.id = proactiveRefreshTimer /\ t.kind = "refresh"

\* The messages that contain, in whatever case, one of 401, unauthorized,
\* expired, revoked, invalid.
AuthRejections ==
  {"Refresh failed: 401", "Invalid URL", "Unauthorized", "Token REVOKED",
   "certificate has expired"}

\* C30: when the refresh of the timer callback fails with a message that
\* contains 401, unauthorized, expired, revoked or invalid in any case, every
\* registered callback is notified once with refresh_token_revoked and no
\* timer is set; with any other message nobody is notified.
C30_PermanentFailure ==
  (ev.op = "taskResumed" /\ ev.kind = "proactive" /\ ev.outcome = "rejected")
  => IF ev.err \in AuthRejections
       THEN /\ InvalidNotifiedOnce(ev.notified, ev.callbacks, "refresh_token_revoked")
            /\ pendingTimers = ev.prevPending
            /\ proactiveRefreshTimer = ev.prevTimer
       ELSE ev.notified = <<>>

\* The refresh fails with a mixed-case message and the registered callbacks
\* are notified; and it fails with a message of no such kind.
C30_Witness ==
  /\ ev.op = "taskResumed"
  /\ ev.kind = "proactive"
  /\ ev.err = "Token REVOKED"
  /\ Len(ev.callbacks) = MaxCallbacks
  /\ Len(ev.notified) = MaxCallbacks

\* The scheduler has work under way: a timer is pending, or a refresh is in
\* flight or its continuation is about to run.
SchedulerActive == pendingTimers # {} \/ refreshInProgress \/ tasks # {}

\* C31: with no stop and only successful refreshes, from the call of
\* startProactiveRefresh() (enabled, token held) on, whenever a token is held
\* a timer is pending or a refresh is in flight.  In steps: the start call
\* leaves the scheduler active when a token is held, and an active scheduler
\* is still active after any step that leaves a token held.
C31_LoopKeepsRunning ==
  [][((SchedulerActive \/ (ev'.op = "startProactiveRefresh" /\ ev'.enabled))
        /\ getTokenValue(accessToken', authToken') # Null)
     => SchedulerActive']_vars

\* C32: startProactiveRefresh() (enabled) with a held token whose time until
\* expiry is <= 0, expired or undecodable, sets no timer and calls
\* refreshToken() exactly once; when that refresh fails, the continuation
\* invokes every registered session-invalid callback exactly once with
\* token_expired.
C32_ExpiredStart ==
  /\ (/\ ev.op = "startProactiveRefresh"
      /\ ev.enabled
      /\ accessToken # Null
      /\ getTimeUntilExpiry(accessToken, now) <= 0)
       => /\ proactiveRefreshTimer = NoTimer
          /\ pendingTimers \subseteq ev.prevPending
          /\ ev.refreshes = 1
          /\ \E t \in tasks : t.kind = "expired" /\ t.pc = "refresh"
  /\ (ev.op = "taskResumed" /\ ev.kind = "expired" /\ ev.outcome = "rejected")
       => InvalidNotifiedOnce(ev.notified, ev.callbacks, "token_expired")

C32_Witness ==
  /\ ev.op = "taskResumed"
  /\ ev.kind = "expired"
  /\ ev.outcome = "rejected"
  /\ Len(ev.callbacks) = 2
  /\ Len(ev.notified) = 2

C32_Undecodable ==
  /\ ev.op = "startProactiveRefresh"
  /\ ev.enabled
  /\ accessToken = "garbage"
  /\ ev.refreshes = 1

\* C33: once stopProactiveRefresh() has returned, the scheduler sets no timer
\* and calls refreshToken() no more until startProactiveRefresh() is called,
\* also when the stop came while the refresh of a fired timer was in flight.
\* Where the application starts the scheduler only when it is idle, a null
\* handle with no timer pending and the timer callback suspended in
\* refreshToken() is the state a stop during the flight leaves: from there,
\* no step but a start call may set a timer or call refreshToken().
C33_StopHolds ==
  [][(/\ proactiveRefreshTimer = NoTimer
      /\ pendingTimers = {}
      /\ \E t \in tasks : t.kind = "proactive"
      /\ ev'.op # "startProactiveRefresh")
     => (pendingTimers' = {} /\ ev'.refreshes = 0)]_vars

\* C34: a periodic tick that finds a held token with ttl <= 0 calls
\* refreshToken() and sends no validation request before its result; when
\* the refresh fails the session is invalidated with session_deleted and the
\* tick sends no validation request; when it succeeds the tick sends exactly
\* one validation request, carrying the token the refresh resolved with.  A
\* tick that finds no token stops the monitor and sends no request.
C34_ExpiredTick ==
  /\ (ev.op = "tick" /\ ev.outcome = "expired")
       => ev.refreshes = 1 /\ ev.validations = 0 /\ ev.notified = <<>>
  /\ (ev.op = "taskResumed" /\ ev.kind = "tick" /\ ev.outcome = "rejected")
       => /\ ev.validations = 0
          /\ getTokenValue(accessToken, authToken) = Null
          /\ ~sessionValidationTimer
          /\ InvalidNotifiedOnce(ev.notified, ev.callbacks, "session_deleted")
  /\ (ev.op = "taskResumed" /\ ev.kind = "tick" /\ ev.outcome = "resolved")
       => /\ ev.validations = 1
          /\ ev.at \in Tokens
          /\ ev.at = ev.ret
          /\ ev.notified = <<>>
  /\ (ev.op = "tick" /\ ev.outcome = "no token")
       => /\ ~sessionValidationTimer
          /\ ev.refreshes = 0
          /\ ev.validations = 0
          /\ ev.notified = <<>>

C34_Witness ==
  /\ ev.op = "taskResumed"
  /\ ev.kind = "tick"
  /\ ev.outcome = "resolved"
  /\ ev.validations = 1
  /\ ev.at = "t2"
  /\ ev.prevMonitor

\* The visible handler's case 3 up to the answer of its validation request.
C35_Rest ==
  /\ (ev.op = "visible" /\ ev.outcome = "expired")
       => ev.refreshes = 1 /\ ev.validations = 0 /\ ev.notified = <<>>
  /\ (/\ ev.op = "taskResumed"
      /\ ev.kind \in {"visibleExpired", "visibleExpiredLong"}
      /\ ev.outcome = "rejected")
       => /\ ev.validations = 0
          /\ ev.refreshes = 0
          /\ getTokenValue(accessToken, authToken) = Null
          /\ InvalidNotifiedOnce(ev.notified, ev.callbacks,
                                 "session_deleted_while_hidden")
  /\ (ev.op = "taskResumed" /\ ev.kind = "visibleExpired" /\ ev.outcome = "resolved")
       => /\ ev.validations = 0
          /\ ev.refreshes = 0
          /\ ev.notified = <<>>
          /\ getTokenValue(accessToken, authToken) = ev.ret
          /\ ev.ret \in Tokens
  /\ (ev.op = "taskResumed" /\ ev.kind = "visibleExpiredLong" /\ ev.outcome = "resolved")
       => /\ ev.validations = 1
          /\ ev.refreshes = 0
          /\ ev.notified = <<>>

\* C35: the visible handler that finds the held token expired calls
\* refreshToken() once; a failed refresh invalidates the session with
\* session_deleted_while_hidden; after a successful one, a hidden time below
\* the validation interval leaves the refreshed token in place and does
\* nothing more, and a hidden time of at least the interval sends exactly one
\* validation request, after whose answer the session is invalidated (with
\* session_deleted_while_hidden) only if the server answered invalid.
C35_VisibleExpired ==
  /\ C35_Rest
  /\ (ev.op = "validationSettled" /\ ev.kind = "visibleExpiredLong")
       => /\ ev.outcome \in {"invalid", "401"}
            => InvalidNotifiedOnce(ev.notified, ev.callbacks,
                                   "session_deleted_while_hidden")
          /\ ev.outcome \notin {"invalid", "401"}
            => /\ ev.notified = <<>>
               /\ getTokenValue(accessToken, authToken) = ev.prevHeld

C35_Reach ==
  /\ ev.op = "taskResumed" /\ ev.kind = "visibleExpired" /\ ev.outcome = "resolved"
  /\ ev.ret = "t2"

\* C36: in the visible handler a validation request that fails on the
\* network or with an HTTP error other than 401 invalidates nothing, whether
\* the token was still valid or had expired and was refreshed just before:
\* the held token stays, the timers and the subscription stay, and no
\* session-invalid callback is invoked.
C36_ValidationErrorKeeps ==
  (/\ ev.op = "validationSettled"
   /\ ev.kind \in {"visibleValid", "visibleExpiredLong"}
   /\ ev.outcome \in {"500", "network"})
    => /\ ev.notified = <<>>
       /\ getTokenValue(accessToken, authToken) = ev.prevHeld
       /\ refreshStore = ev.prevRs
       /\ sessionValidationTimer = ev.prevMonitor
       /\ proactiveRefreshTimer = ev.prevTimer
       /\ pendingTimers = ev.prevPending

\* The step was an invalidation by the session monitor.
MonitorInvalidated ==
  \/ ev.op = "validationSettled" /\ ev.outcome \in {"invalid", "401"}
  \/ /\ ev.op = "taskResumed"
     /\ ev.kind \in {"tick", "visibleExpired", "visibleExpiredLong"}
     /\ ev.outcome = "rejected"
  \/ /\ ev.notified # <<>>
     /\ ev.notified[1].reason \in {"session_deleted", "session_deleted_while_hidden"}

\* C37: an invalidation by the session monitor, periodic or on visibility,
\* has stopped the periodic timer, the visibility subscription and the
\* proactive-refresh timer before the tokens are cleared (a token listener,
\* called with null, finds no timer live), and has cleared the access and
\* refresh tokens before the callbacks run: every registered session-invalid
\* callback is invoked exactly once with the reason, after a callback that
\* throws too, and each finds getToken() null and no timer live.
C37_InvalidationOrder ==
  MonitorInvalidated =>
    /\ ~sessionValidationTimer
    /\ ~visibilityHandler
    /\ proactiveRefreshTimer = NoTimer
    /\ \A t \in pendingTimers : t.id # ev.prevTimer
    /\ accessToken = Null
    /\ authToken = Null
    /\ refreshStore = Null
    /\ ev.prevHeld # Null => NotifiedOnce(ev.calls, listeners, Null, ev.prevHeld)
    /\ \A i \in 1..Len(ev.calls) : ev.calls[i].seen = Null /\ ~ev.calls[i].live
    /\ InvalidNotifiedOnce(ev.notified, ev.callbacks,
                           IF ev.kind = "tick" THEN "session_deleted"
                           ELSE "session_deleted_while_hidden")
    /\ \A i \in 1..Len(ev.notified) :
         ev.notified[i].seen = Null /\ ~ev.notified[i].live

C37_Witness ==
  /\ MonitorInvalidated
  /\ ev.kind = "visibleValid"
  /\ Len(ev.notified) = 2
  /\ ev.notified[1].threw
  /\ ~ev.notified[2].threw
  /\ Len(ev.calls) = 1
  /\ ev.prevHeld \in Tokens
  /\ ev.prevMonitor
  /\ \E t \in ev.prevPending : t.id = ev.prevTimer

\* C38: when a validation or a refresh the session monitor started while
\* token t was held completes with a different token t' held, the monitor
\* leaves t' in place, leaves the timers running and invokes no
\* session-invalid callback.
C38_LateResultSpares ==
  (/\ ev.op \in {"validationSettled", "taskResumed"}
   /\ ev.kind \in {"tick", "visibleValid", "visibleExpired", "visibleExpiredLong"}
   /\ ev.prevHeld # Null
   /\ ev.arg # ev.prevHeld)
    => /\ getTokenValue(accessToken, authToken) = ev.prevHeld
       /\ ev.notified = <<>>
       /\ sessionValidationTimer = ev.prevMonitor
       /\ proactiveRefreshTimer = ev.prevTimer
       /\ pendingTimers = ev.prevPending

\* C39: once logout() has cleared the token store, nothing the library
\* started earlier (a proactive or retry timer, a tick, the visibility
\* handler, a refresh in flight) sets an access token again.  With no
\* handleCallback() or setToken() call by the application, getToken() is
\* null for as long as the logout request is in flight.
C39_NoResurrection ==
  logoutInFlight => getTokenValue(accessToken, authToken) = Null

\* C40: mirror invariant of the token store.  In every state reached through
\* setToken, getToken, clearToken, handleCallback, refreshToken and logout, a
\* non-null in-memory access token equals the persistent entry, and an absent
\* persistent entry means a null in-memory token.
C40_Mirror ==
  /\ accessToken # Null => authToken = accessToken
  /\ authToken = Null => accessToken = Null

C40_Witness ==
  /\ ev.op = "refreshSettled"
  /\ ev.path = "success"
  /\ ev.prevLs \in Tokens
  /\ accessToken \in Tokens
  /\ accessToken # ev.prevLs
  /\ authToken = accessToken
====
